---- MODULE Spec2Model ----
(***************************************************************************)
(* A model of sarpy/io/general/nitf_elements/image.py: the NITF image      *)
(* segment header (NITF 2.1 and NITF 2.0), its conditional COMRAT and       *)
(* IGEOLO fields, the ImageBand look-up table field, the ImageBands loop   *)
(* count, the MaskSubheader, the size queries and the complexity level.    *)
(*                                                                         *)
(* Conventions.                                                            *)
(*   - A Python value that may be None is a sequence of length 0 or 1:      *)
(*     None is <<>> and the value v is <<v>>.                               *)
(*   - Text (str, and the ASCII bytes of the header) is a TLA+ string.      *)
(*   - Binary data (the LUTD field, the loop count) is a sequence of byte   *)
(*     values 0..255; the ASCII digit d is the byte 48 + d.                 *)
(*   - A call that may raise returns [ok, self]: ok = FALSE means that the  *)
(*     call raised and self is the object as the exception left it.         *)
(***************************************************************************)
EXTENDS Integers, Sequences, FiniteSets, TLC

VARIABLES
    hdr,      \* the image segment header object: version, ICORDS, IGEOLO, IC, COMRAT
    hlast,    \* the last operation on the header: what was called and how it ended
    band,     \* the ImageBand object: its LUTD
    blast,    \* the last operation on the band
    nvalues,  \* the ImageBands loop: len(self.values), the number of children
    llast,    \* the last operation on the loop
    mask,     \* the MaskSubheader object
    mlast,    \* the last operation on the mask subheader
    img,      \* the fields of a header that the size queries read
    slast     \* the last size query and what it returned

hvars == <<hdr, hlast>>

bvars == <<band, blast>>

lvars == <<nvalues, llast>>

mvars == <<mask, mlast>>

svars == <<img, slast>>

vars == <<hdr, hlast, band, blast, nvalues, llast, mask, mlast, img, slast>>

(***************************************************************************)
(* Python values                                                           *)
(***************************************************************************)
None == <<>>

Some(v) == <<v>>

IsNone(v) == v = <<>>

Val(v) == v[1]

Min(a, b) == IF a <= b THEN a ELSE b

\* s[i:j] on a string or a sequence, 0-based and clamped to the value's end
Slice(s, i, j) == SubSeq(s, Min(i, Len(s)) + 1, Min(j, Len(s)))

\* 64 space characters
Pad == "                                                                "

\* '\x20' * n, for n up to 64
Blank(n) == SubSeq(Pad, 1, n)

RECURSIVE rstrip(_)
rstrip(s) ==
    IF s = "" THEN s
    ELSE IF SubSeq(s, Len(s), Len(s)) = " " THEN rstrip(SubSeq(s, 1, Len(s) - 1))
    ELSE s

RECURSIVE lstrip(_)
lstrip(s) ==
    IF s = "" THEN s
    ELSE IF SubSeq(s, 1, 1) = " " THEN lstrip(SubSeq(s, 2, Len(s)))
    ELSE s

\* str.strip()
strip(s) == lstrip(rstrip(s))

Ok(self) == [ok |-> TRUE, self |-> self]

Raise(self) == [ok |-> FALSE, self |-> self]

(***************************************************************************)
(* The generic record framework (nitf_elements/base.py)                    *)
(***************************************************************************)
\* _parse_str(val, length, default, name, instance): None gives the default;
\* text loses its trailing pad and is truncated to the field's length.
_parse_str(val, length, default) ==
    IF IsNone(val) THEN default
    ELSE LET s == rstrip(Val(val)) IN
         IF Len(s) <= length THEN Some(s) ELSE Some(SubSeq(s, 1, length))

\* _StringEnumDescriptor.__set__: None gives the default, anything outside
\* the closed set of values raises.
_StringEnumDescriptor_set(self, name, value, length, values, default) ==
    IF IsNone(value) THEN Ok([self EXCEPT ![name] = default])
    ELSE LET v == Val(_parse_str(value, length, Some(default))) IN
         IF v \in values THEN Ok([self EXCEPT ![name] = v]) ELSE Raise(self)

\* _get_bytes(val, length) for text: left-justified, padded to the width
_get_bytes(val, length) ==
    IF IsNone(val) THEN Blank(length)
    ELSE Val(val) \o Blank(length - Len(Val(val)))

(***************************************************************************)
(* ImageSegmentHeader (NITF 2.1) and ImageSegmentHeader0 (NITF 2.0)        *)
(***************************************************************************)
Versions == {"2.1", "2.0"}

\* the part of _ordering that carries the conditional fields
_ordering == <<"ICORDS", "IGEOLO", "IC", "COMRAT">>

_lengths == [ICORDS |-> 1, IGEOLO |-> 60, IC |-> 2, COMRAT |-> 4]

ICORDS_values == {"", "U", "G", "N", "S", "D"}

ICORDS_values0 == {"U", "G", "C", "N"}

ICORDS_default == "G"

IC_values ==
    {"NC", "NM", "C0", "C1", "C3", "C4", "C5", "C6", "C7", "C8", "I1",
     "M1", "M3", "M4", "M5", "M6", "M7", "M8"}

IC_values0 ==
    {"NC", "NM", "C1", "C3", "C4", "C5", "C6", "C7", "C8", "I1",
     "M1", "M3", "M4", "M5", "M6", "M7", "M8"}

\* ImageSegmentHeader.__init__ / ImageSegmentHeader0.__init__, before the
\* fields are set (ICORDS is set first of the four, so it starts unset)
NewHeader(version) ==
    [version |-> version, ICORDS |-> ICORDS_default, IGEOLO |-> None,
     IC |-> None, COMRAT |-> None, mask_subheader |-> None]

\* the ICORDS descriptor
ICORDS_setter(self, value) ==
    _StringEnumDescriptor_set(self, "ICORDS", value, 1,
        IF self.version = "2.1" THEN ICORDS_values ELSE ICORDS_values0,
        ICORDS_default)

\* IC.setter
IC_setter_late(self, value) ==
    LET v == _parse_str(value, 2, Some("NC")) IN
    IF Val(v) \notin (IF self.version = "2.1" THEN IC_values ELSE IC_values0)
    THEN Raise([self EXCEPT !.IC = v])
    ELSE IF Val(v) \in {"NC", "NM"}
         THEN Ok([self EXCEPT !.IC = v, !.COMRAT = None])
         ELSE IF ~IsNone(self.COMRAT)
              THEN Ok([self EXCEPT !.IC = v, !.COMRAT = Some(Blank(4))])
              ELSE Ok([self EXCEPT !.IC = v])

IC_setter(self, value) ==
    LET v == _parse_str(value, 2, Some("NC")) IN
    IF Val(v) \notin (IF self.version = "2.1" THEN IC_values ELSE IC_values0)
    THEN Raise(self)
    ELSE IF Val(v) \in {"NC", "NM"}
         THEN Ok([self EXCEPT !.IC = v, !.COMRAT = None])
         ELSE IF ~IsNone(self.COMRAT)
              THEN Ok([self EXCEPT !.IC = v, !.COMRAT = Some(Blank(4))])
              ELSE Ok([self EXCEPT !.IC = v])

\* COMRAT.setter
COMRAT_setter(self, value) ==
    LET v0 == _parse_str(value, 4, None)
        v1 == IF IsNone(v0) /\ self.IC \notin {Some("NC"), Some("NM")}
              THEN Some(Blank(4)) ELSE v0
        v2 == IF ~IsNone(v1) /\ self.IC \in {Some("NC"), Some("NM")}
              THEN None ELSE v1
    IN Ok([self EXCEPT !.COMRAT = v2])

IGEOLO_setter_keep(self, value) ==
    LET v0 == _parse_str(value, 60, None)
        v1 == IF IsNone(v0) /\ strip(self.ICORDS) # "" THEN Some(Blank(60)) ELSE v0
    IN Ok([self EXCEPT !.IGEOLO = v1])

\* IGEOLO.setter
IGEOLO_setter(self, value) ==
    LET v0 == _parse_str(value, 60, None)
        v1 == IF IsNone(v0) /\ strip(self.ICORDS) # "" THEN Some(Blank(60)) ELSE v0
        v2 == IF ~IsNone(v1) /\ strip(self.ICORDS) = "" THEN None ELSE v1
    IN Ok([self EXCEPT !.IGEOLO = v2])

is_masked_M(self) ==
    self.IC \in {Some("M1"), Some("M3"), Some("M4"), Some("M5"),
                 Some("M6"), Some("M7"), Some("M8")}

\* is_masked
is_masked(self) ==
    self.IC \in {Some("NM"), Some("M1"), Some("M3"), Some("M4"), Some("M5"),
                 Some("M6"), Some("M7"), Some("M8")}

is_compressed_NC(self) == self.IC \notin {Some("NC")}

\* is_compressed
is_compressed(self) == self.IC \notin {Some("NC"), Some("NM")}

mask_subheader_setter_anyIC(self, value) ==
    IF IsNone(value) THEN Ok([self EXCEPT !.mask_subheader = None])
    ELSE IF Val(value).type # "MaskSubheader" THEN Raise(self)
    ELSE Ok([self EXCEPT !.mask_subheader = value])

\* mask_subheader.setter
mask_subheader_setter(self, value) ==
    IF IsNone(value) THEN Ok([self EXCEPT !.mask_subheader = None])
    ELSE IF Val(value).type # "MaskSubheader" THEN Raise(self)
    ELSE IF self.IC \notin {Some("NM"), Some("M1"), Some("M3"), Some("M4"), Some("M5"),
                            Some("M6"), Some("M7"), Some("M8")}
         THEN Raise(self)
    ELSE Ok([self EXCEPT !.mask_subheader = value])

\* setattr(self, fld, value)
setattr(self, fld, value) ==
    CASE fld = "ICORDS" -> ICORDS_setter(self, value)
      [] fld = "IGEOLO" -> IGEOLO_setter(self, value)
      [] fld = "IC"     -> IC_setter(self, value)
      [] fld = "COMRAT" -> COMRAT_setter(self, value)

RECURSIVE SetFrom(_, _, _)
\* NITFElement.__init__: every field of _ordering is set, in order, from
\* kwargs (None when absent); the first setter that raises ends it
SetFrom(r, kwargs, i) ==
    IF ~r.ok \/ i > Len(_ordering) THEN r
    ELSE SetFrom(setattr(r.self, _ordering[i], kwargs[_ordering[i]]), kwargs, i + 1)

\* cls(**kwargs)
__init__(version, kwargs) == SetFrom(Ok(NewHeader(version)), kwargs, 1)

\* _get_attribute_length
_get_attribute_length(self, fld) ==
    IF fld \in {"COMRAT", "IGEOLO"}
    THEN IF IsNone(self[fld]) THEN 0 ELSE _lengths[fld]
    ELSE _lengths[fld]

\* _get_attribute_bytes (base class)
_get_attribute_bytes(self, fld) ==
    IF fld \in {"COMRAT", "IGEOLO"} /\ IsNone(self[fld]) THEN ""
    ELSE _get_bytes(IF fld = "ICORDS" THEN Some(self.ICORDS) ELSE self[fld],
                    _lengths[fld])

RECURSIVE SumLengths(_, _)
SumLengths(self, i) ==
    IF i > Len(_ordering) THEN 0
    ELSE _get_attribute_length(self, _ordering[i]) + SumLengths(self, i + 1)

\* get_bytes_length, over the four fields
get_bytes_length(self) == SumLengths(self, 1)

RECURSIVE JoinBytes(_, _)
JoinBytes(self, i) ==
    IF i > Len(_ordering) THEN ""
    ELSE _get_attribute_bytes(self, _ordering[i]) \o JoinBytes(self, i + 1)

\* to_bytes, over the four fields
to_bytes(self) == JoinBytes(self, 1)

\* the "no geolocation" byte that ICORDS is compared with on decode
ICORDS_none(version) == IF version = "2.1" THEN " " ELSE "N"

_parse_attribute_NC(version, st, attribute, value) ==
    LET start == st.loc IN
    CASE attribute = "IC" ->
           LET val == Slice(value, start, start + 2) IN
           [fields |-> IF val \in {"NC"}
                       THEN [st.fields EXCEPT !.IC = Some(Some(val)),
                                              !.COMRAT = Some(None)]
                       ELSE [st.fields EXCEPT !.IC = Some(Some(val))],
            loc |-> start + 2,
            used |-> [st.used EXCEPT !.IC = 2]]
      [] attribute = "ICORDS" ->
           LET val == Slice(value, start, start + 1) IN
           [fields |-> IF val = ICORDS_none(version)
                       THEN [st.fields EXCEPT !.ICORDS = Some(Some(val)),
                                              !.IGEOLO = Some(None)]
                       ELSE [st.fields EXCEPT !.ICORDS = Some(Some(val))],
            loc |-> start + 1,
            used |-> [st.used EXCEPT !.ICORDS = 1]]
      [] OTHER ->
           IF ~IsNone(st.fields[attribute]) THEN st
           ELSE LET end == start + _lengths[attribute] IN
                [fields |-> [st.fields EXCEPT
                                ![attribute] = Some(Some(Slice(value, start, end)))],
                 loc |-> end,
                 used |-> [st.used EXCEPT ![attribute] = _lengths[attribute]]]

\* _parse_attribute: st is [fields, loc, used]; fields maps a parsed
\* attribute to its value, used[fld] is the number of bytes it consumed
_parse_attribute(version, st, attribute, value) ==
    LET start == st.loc IN
    CASE attribute = "IC" ->
           LET val == Slice(value, start, start + 2) IN
           [fields |-> IF val \in {"NC", "NM"}
                       THEN [st.fields EXCEPT !.IC = Some(Some(val)),
                                              !.COMRAT = Some(None)]
                       ELSE [st.fields EXCEPT !.IC = Some(Some(val))],
            loc |-> start + 2,
            used |-> [st.used EXCEPT !.IC = 2]]
      [] attribute = "ICORDS" ->
           LET val == Slice(value, start, start + 1) IN
           [fields |-> IF val = ICORDS_none(version)
                       THEN [st.fields EXCEPT !.ICORDS = Some(Some(val)),
                                              !.IGEOLO = Some(None)]
                       ELSE [st.fields EXCEPT !.ICORDS = Some(Some(val))],
            loc |-> start + 1,
            used |-> [st.used EXCEPT !.ICORDS = 1]]
      [] OTHER ->
           \* the base class: a field already in fields consumes nothing
           IF ~IsNone(st.fields[attribute]) THEN st
           ELSE LET end == start + _lengths[attribute] IN
                [fields |-> [st.fields EXCEPT
                                ![attribute] = Some(Some(Slice(value, start, end)))],
                 loc |-> end,
                 used |-> [st.used EXCEPT ![attribute] = _lengths[attribute]]]

RECURSIVE ParseFrom(_, _, _, _)
ParseFrom(version, st, value, i) ==
    IF i > Len(_ordering) THEN st
    ELSE ParseFrom(version, _parse_attribute(version, st, _ordering[i], value),
                   value, i + 1)

NoFields == [ICORDS |-> None, IGEOLO |-> None, IC |-> None, COMRAT |-> None]

NoneUsed == [ICORDS |-> 0, IGEOLO |-> 0, IC |-> 0, COMRAT |-> 0]

\* _parse_attributes(value, start)
_parse_attributes(version, value, start) ==
    ParseFrom(version, [fields |-> NoFields, loc |-> start, used |-> NoneUsed],
              value, 1)

\* from_bytes(value, start): parse the fields, then cls(**fields)
from_bytes(version, value, start) ==
    LET st == _parse_attributes(version, value, start)
        kwargs == [f \in DOMAIN st.fields |->
                      IF IsNone(st.fields[f]) THEN None ELSE Val(st.fields[f])]
    IN [res |-> __init__(version, kwargs), loc |-> st.loc, used |-> st.used]

(***************************************************************************)
(* ASCII decimal numbers in bytes                                          *)
(***************************************************************************)
RECURSIVE format_d(_)
\* '{0:d}'.format(n).encode()
format_d(n) == IF n < 10 THEN <<48 + n>> ELSE format_d(n \div 10) \o <<48 + (n % 10)>>

RECURSIVE zfill(_, _)
zfill(b, width) == IF Len(b) >= width THEN b ELSE zfill(<<48>> \o b, width)

\* '{0:0<width>d}'.format(n).encode(): at least width digits, zero-padded
format_0d(n, width) == zfill(format_d(n), width)

\* whether int(b) succeeds; only plain digit strings are drawn as inputs
IsDigits(b) == Len(b) > 0 /\ \A i \in 1..Len(b) : b[i] \in 48..57

RECURSIVE int(_)
\* int(b) for a string of digits
int(b) == IF Len(b) = 0 THEN 0 ELSE 10 * int(SubSeq(b, 1, Len(b) - 1)) + (b[Len(b)] - 48)

(***************************************************************************)
(* ImageBand: the LUTD field.  An array is [type, dtype, shape, data];     *)
(* the data of a two-dimensional array is the sequence of its rows.        *)
(***************************************************************************)
MaxNLUTS == 4

MaxNELUTS == 65536

ndarray(dtype, shape, data) ==
    [type |-> "ndarray", dtype |-> dtype, shape |-> shape, data |-> data]

\* ImageBand.__init__, before the fields are set
NewBand == [LUTD |-> None]

LUTD_setter_anyrows(self, value) ==
    IF IsNone(value) THEN Ok([self EXCEPT !.LUTD = None])
    ELSE LET v == Val(value) IN
         IF v.type # "ndarray" THEN Raise(self)
         ELSE IF v.dtype # "uint8" THEN Raise(self)
         ELSE IF Len(v.shape) # 2 THEN Raise(self)
         ELSE IF v.shape[2] > MaxNELUTS THEN Raise(self)
         ELSE Ok([self EXCEPT !.LUTD = value])

\* LUTD.setter
LUTD_setter(self, value) ==
    IF IsNone(value) THEN Ok([self EXCEPT !.LUTD = None])
    ELSE LET v == Val(value) IN
         IF v.type # "ndarray" THEN Raise(self)
         ELSE IF v.dtype # "uint8" THEN Raise(self)
         ELSE IF Len(v.shape) # 2 THEN Raise(self)
         ELSE IF v.shape[1] > MaxNLUTS THEN Raise(self)
         ELSE IF v.shape[2] > MaxNELUTS THEN Raise(self)
         ELSE Ok([self EXCEPT !.LUTD = value])

NLUTS_columns(self) == IF IsNone(self.LUTD) THEN 0 ELSE Val(self.LUTD).shape[2]

NLUTS(self) == IF IsNone(self.LUTD) THEN 0 ELSE Val(self.LUTD).shape[1]

NELUTS(self) == IF IsNone(self.LUTD) THEN 0 ELSE Val(self.LUTD).shape[2]

\* the elements taken column after column
flatten_columns(a) ==
    [k \in 1..(a.shape[1] * a.shape[2]) |->
        a.data[((k - 1) % a.shape[1]) + 1][((k - 1) \div a.shape[1]) + 1]]

\* numpy.ndarray.flatten() of a two-dimensional array: row after row
flatten(a) ==
    [k \in 1..(a.shape[1] * a.shape[2]) |->
        a.data[((k - 1) \div a.shape[2]) + 1][((k - 1) % a.shape[2]) + 1]]

\* numpy.array(flat, dtype=uint8).reshape((rows, cols))
reshape(flat, rows, cols) ==
    ndarray("uint8", <<rows, cols>>,
            [i \in 1..rows |-> [j \in 1..cols |-> flat[(i - 1) * cols + j]]])

\* ImageBand._get_attribute_bytes('LUTD')
ImageBand_get_attribute_bytes(self) ==
    IF NLUTS(self) = 0 THEN <<48>>
    ELSE format_d(NLUTS(self)) \o format_0d(NELUTS(self), 5) \o flatten(Val(self.LUTD))

\* ImageBand._get_attribute_length('LUTD')
ImageBand_get_attribute_length(self) ==
    LET nluts == NLUTS(self) IN
    IF nluts = 0 THEN 1 ELSE 6 + nluts * NELUTS(self)

\* ImageBand._parse_attribute(fields, 'LUTD', value, start): int() raises on
\* bytes that are no number, struct.unpack on a slice shorter than siz
ImageBand_parse_attribute(value, start) ==
    LET failed == [ok |-> FALSE, LUTD |-> None, loc |-> start]
        d1 == Slice(value, start, start + 1)
    IN IF ~IsDigits(d1) THEN failed
       ELSE IF int(d1) = 0 THEN [ok |-> TRUE, LUTD |-> None, loc |-> start + 1]
       ELSE LET nluts == int(d1)
                d5 == Slice(value, start + 1, start + 6)
            IN IF ~IsDigits(d5) THEN failed
               ELSE LET neluts == int(d5)
                        siz == nluts * neluts
                        raw == Slice(value, start + 6, start + 6 + siz)
                    IN IF Len(raw) # siz THEN failed
                       ELSE [ok |-> TRUE,
                             LUTD |-> Some(reshape(raw, nluts, neluts)),
                             loc |-> start + 6 + siz]

\* ImageBand(LUTD=value)
ImageBand_init(value) == LUTD_setter(NewBand, value)

\* ImageBand.from_bytes(value, start), for the LUTD field: parse, then
\* cls(**fields)
ImageBand_from_bytes(value, start) ==
    LET p == ImageBand_parse_attribute(value, start) IN
    IF ~p.ok THEN [res |-> Raise(NewBand), loc |-> p.loc]
    ELSE [res |-> ImageBand_init(p.LUTD), loc |-> p.loc]

(***************************************************************************)
(* ImageBands: the count of the loop                                       *)
(***************************************************************************)
_count_size == 1

ImageBands_parse_count_short(value, start) ==
    LET d1 == Slice(value, start, start + _count_size)
        loc == start + _count_size
    IN IF ~IsDigits(d1) THEN [ok |-> FALSE, count |-> 0, loc |-> start]
       ELSE IF int(d1) = 0 /\ IsDigits(Slice(value, loc, loc + 5))
                 /\ Len(Slice(value, loc, loc + 5)) = 5
            THEN [ok |-> TRUE, count |-> int(Slice(value, loc, loc + 5)), loc |-> loc + 5]
            ELSE [ok |-> TRUE, count |-> int(d1), loc |-> loc]

\* ImageBands._parse_count(value, start)
ImageBands_parse_count(value, start) ==
    LET d1 == Slice(value, start, start + _count_size)
        loc == start + _count_size
    IN IF ~IsDigits(d1) THEN [ok |-> FALSE, count |-> 0, loc |-> start]
       ELSE IF int(d1) = 0
            THEN LET d5 == Slice(value, loc, loc + 5) IN
                 IF ~IsDigits(d5) THEN [ok |-> FALSE, count |-> 0, loc |-> loc]
                 ELSE [ok |-> TRUE, count |-> int(d5), loc |-> loc + 5]
            ELSE [ok |-> TRUE, count |-> int(d1), loc |-> loc]

ImageBands_counts_bytes_below9(siz) ==
    IF siz < 9 THEN format_0d(siz, 1) ELSE <<48>> \o format_0d(siz, 5)

\* ImageBands._counts_bytes(), siz = len(self.values)
ImageBands_counts_bytes(siz) ==
    IF siz <= 9 THEN format_0d(siz, 1) ELSE <<48>> \o format_0d(siz, 5)

(***************************************************************************)
(* MaskSubheader: the binary mask table.  A 32-bit unsigned value          *)
(* (IMDATOFF, an entry of BMR or TMR) is the pair <<hi, lo>> of its 16-bit *)
(* halves and stands for hi * 65536 + lo, so 0xFFFFFFFF is                 *)
(* <<65535, 65535>>.  A bytes object is [type |-> "bytes", data |-> b].    *)
(***************************************************************************)
bytes(b) == [type |-> "bytes", data |-> b]

\* struct.pack('>H', n)
pack_H(n) == <<n \div 256, n % 256>>

\* struct.unpack('>H', b)[0]
unpack_H(b) == b[1] * 256 + b[2]

pack_I_little(v) == <<v[2] % 256, v[2] \div 256, v[1] % 256, v[1] \div 256>>

\* struct.pack('>I', v)
pack_I(v) == pack_H(v[1]) \o pack_H(v[2])

\* struct.unpack('>I', b)[0]
unpack_I(b) == <<unpack_H(SubSeq(b, 1, 2)), unpack_H(SubSeq(b, 3, 4))>>

RECURSIVE pack_nI(_)
\* struct.pack('>{}I'.format(n), *flat)
pack_nI(flat) ==
    IF Len(flat) = 0 THEN <<>> ELSE pack_I(Head(flat)) \o pack_nI(Tail(flat))

\* struct.unpack('>{}I'.format(count), b), for len(b) = 4 * count
unpack_nI(count, b) == [k \in 1..count |-> unpack_I(SubSeq(b, 4 * (k - 1) + 1, 4 * k))]

\* numpy.resize(numpy.array(flat, dtype='uint32'), (rows, cols)), for
\* len(flat) = rows * cols
resize(flat, rows, cols) ==
    ndarray("uint32", <<rows, cols>>,
            [i \in 1..rows |-> [j \in 1..cols |-> flat[(i - 1) * cols + j]]])

\* value.size
size(a) == a.shape[1] * a.shape[2]

MaskSubheader_ordering ==
    <<"IMDATOFF", "BMRLNTH", "TMRLNTH", "TPXCDLNTH", "TPXCD", "BMR", "TMR">>

MaskSubheader_lengths == [IMDATOFF |-> 4, BMRLNTH |-> 2, TMRLNTH |-> 2, TPXCDLNTH |-> 2]

\* MaskSubheader.__init__, before the fields are set from the keyword
\* arguments; the integer fields hold 0 until their descriptor is assigned
NewMask(band_depth, blocks) ==
    [band_depth |-> band_depth, blocks |-> blocks, IMDATOFF |-> <<0, 0>>,
     BMRLNTH |-> 0, TMRLNTH |-> 0, TPXCDLNTH |-> 0,
     TPXCD |-> None, BMR |-> None, TMR |-> None]

\* the _IntegerDescriptor of a 2-byte field: an unsigned 16-bit value
_IntegerDescriptor_set(self, name, value) ==
    IF value \in 0..65535 THEN Ok([self EXCEPT ![name] = value]) ELSE Raise(self)

\* the _IntegerDescriptor of IMDATOFF: an unsigned 32-bit value
IMDATOFF_set(self, value) ==
    IF value[1] \in 0..65535 /\ value[2] \in 0..65535
    THEN Ok([self EXCEPT !.IMDATOFF = value]) ELSE Raise(self)

define_tpxcd_length_floor(tpxcdlnth) == tpxcdlnth \div 8

\* MaskSubheader.define_tpxcd_length; the quotients are whole numbers
define_tpxcd_length(tpxcdlnth) ==
    LET missing == tpxcdlnth % 8 IN
    IF missing = 0 THEN tpxcdlnth \div 8
    ELSE (tpxcdlnth + (8 - missing)) \div 8

\* MaskSubheader._get_attribute_length
MaskSubheader_get_attribute_length(self, fld) ==
    IF fld \in {"BMR", "TMR"}
    THEN IF IsNone(self[fld]) THEN 0 ELSE size(Val(self[fld])) * 4
    ELSE IF fld = "TPXCD" THEN define_tpxcd_length(self.TPXCDLNTH)
    ELSE MaskSubheader_lengths[fld]

\* TPXCD.setter
TPXCD_setter(self, value) ==
    IF self.TPXCDLNTH = 0 THEN Ok([self EXCEPT !.TPXCD = None])
    ELSE IF IsNone(value) \/ Val(value).type # "bytes" THEN Raise(self)
    ELSE IF Len(Val(value).data) # MaskSubheader_get_attribute_length(self, "TPXCD")
         THEN Raise(self)
    ELSE Ok([self EXCEPT !.TPXCD = value])

\* numpy.array(value, dtype='uint32') of a nested list
array_uint32(v) == [v EXCEPT !.type = "ndarray", !.dtype = "uint32"]

BMR_setter_anyshape(self, value) ==
    IF IsNone(value)
    THEN IF self.BMRLNTH # 0 THEN Raise(self) ELSE Ok([self EXCEPT !.BMR = None])
    ELSE IF self.BMRLNTH # 4 THEN Raise(self)
    ELSE LET v == IF Val(value).type # "ndarray" THEN array_uint32(Val(value))
                  ELSE Val(value) IN
         IF v.dtype # "uint32" THEN Raise(self)
         ELSE Ok([self EXCEPT !.BMR = Some(v)])

\* BMR.setter
BMR_setter(self, value) ==
    IF IsNone(value)
    THEN IF self.BMRLNTH # 0 THEN Raise(self) ELSE Ok([self EXCEPT !.BMR = None])
    ELSE IF self.BMRLNTH # 4 THEN Raise(self)
    ELSE LET v == IF Val(value).type # "ndarray" THEN array_uint32(Val(value))
                  ELSE Val(value) IN
         IF v.shape # <<self.band_depth, self.blocks>> THEN Raise(self)
         ELSE IF v.dtype # "uint32" THEN Raise(self)
         ELSE Ok([self EXCEPT !.BMR = Some(v)])

\* TMR.setter
TMR_setter(self, value) ==
    IF IsNone(value)
    THEN IF self.TMRLNTH # 0 THEN Raise(self) ELSE Ok([self EXCEPT !.TMR = None])
    ELSE IF self.TMRLNTH # 4 THEN Raise(self)
    ELSE LET v == IF Val(value).type # "ndarray" THEN array_uint32(Val(value))
                  ELSE Val(value) IN
         IF v.shape # <<self.band_depth, self.blocks>> THEN Raise(self)
         ELSE IF v.dtype # "uint32" THEN Raise(self)
         ELSE Ok([self EXCEPT !.TMR = Some(v)])

\* setattr(self, fld, value) on a MaskSubheader
MaskSubheader_setattr(self, fld, value) ==
    CASE fld = "IMDATOFF" -> IMDATOFF_set(self, value)
      [] fld = "TPXCD" -> TPXCD_setter(self, value)
      [] fld = "BMR" -> BMR_setter(self, value)
      [] fld = "TMR" -> TMR_setter(self, value)
      [] OTHER -> _IntegerDescriptor_set(self, fld, value)

RECURSIVE MaskSubheader_SetFrom(_, _, _)
\* NITFElement.__init__: the fields are assigned in the order of _ordering,
\* until an assignment raises
MaskSubheader_SetFrom(r, kwargs, i) ==
    IF i > Len(MaskSubheader_ordering) \/ ~r.ok THEN r
    ELSE MaskSubheader_SetFrom(
             MaskSubheader_setattr(r.self, MaskSubheader_ordering[i],
                                   kwargs[MaskSubheader_ordering[i]]),
             kwargs, i + 1)

\* MaskSubheader(band_depth=band_depth, blocks=blocks, **kwargs)
MaskSubheader_init(band_depth, blocks, kwargs) ==
    MaskSubheader_SetFrom(Ok(NewMask(band_depth, blocks)), kwargs, 1)

\* MaskSubheader._get_attribute_bytes
MaskSubheader_get_attribute_bytes(self, fld) ==
    IF fld \in {"BMR", "TMR"}
    THEN IF IsNone(self[fld]) THEN <<>> ELSE pack_nI(flatten(Val(self[fld])))
    ELSE IF fld = "TPXCD"
         THEN IF IsNone(self.TPXCD) THEN <<>> ELSE Val(self.TPXCD).data
    ELSE IF fld = "IMDATOFF" THEN pack_I(self.IMDATOFF)
    ELSE pack_H(self[fld])

RECURSIVE MaskSubheader_SumLengths(_, _)
MaskSubheader_SumLengths(self, i) ==
    IF i > Len(MaskSubheader_ordering) THEN 0
    ELSE MaskSubheader_get_attribute_length(self, MaskSubheader_ordering[i])
         + MaskSubheader_SumLengths(self, i + 1)

\* get_bytes_length()
MaskSubheader_get_bytes_length(self) == MaskSubheader_SumLengths(self, 1)

RECURSIVE MaskSubheader_JoinBytes(_, _)
MaskSubheader_JoinBytes(self, i) ==
    IF i > Len(MaskSubheader_ordering) THEN <<>>
    ELSE MaskSubheader_get_attribute_bytes(self, MaskSubheader_ordering[i])
         \o MaskSubheader_JoinBytes(self, i + 1)

\* to_bytes()
MaskSubheader_to_bytes(self) == MaskSubheader_JoinBytes(self, 1)

\* MaskSubheader._parse_attribute on st = [ok, fields, loc]: ok = FALSE once
\* struct.unpack has raised on a slice of the wrong length
MaskSubheader_parse_attribute(st, attribute, value) ==
    LET start == st.loc
        fields == st.fields
        count == fields.band_depth * fields.blocks
    IN
    IF ~st.ok THEN st
    ELSE IF attribute \in {"BMR", "TMR"}
    THEN IF fields[attribute \o "LNTH"] = 0
         THEN [st EXCEPT !.fields[attribute] = None]
         ELSE LET end == start + 4 * count
                  slice == Slice(value, start, end) IN
              IF Len(slice) # 4 * count THEN [st EXCEPT !.ok = FALSE]
              ELSE [st EXCEPT
                       !.fields[attribute] =
                           Some(resize(unpack_nI(count, slice),
                                       fields.band_depth, fields.blocks)),
                       !.loc = end]
    ELSE IF attribute = "TPXCD"
    THEN LET length == define_tpxcd_length(fields.TPXCDLNTH) IN
         IF length = 0 THEN [st EXCEPT !.fields.TPXCD = None]
         ELSE [st EXCEPT !.fields.TPXCD = Some(bytes(Slice(value, start, start + length))),
                         !.loc = start + length]
    ELSE \* the base class: a field of _binary_format
         LET end == start + MaskSubheader_lengths[attribute]
             slice == Slice(value, start, end) IN
         IF Len(slice) # MaskSubheader_lengths[attribute] THEN [st EXCEPT !.ok = FALSE]
         ELSE [st EXCEPT !.fields[attribute] =
                             IF attribute = "IMDATOFF" THEN unpack_I(slice)
                             ELSE unpack_H(slice),
                         !.loc = end]

RECURSIVE MaskSubheader_ParseFrom(_, _, _)
MaskSubheader_ParseFrom(st, value, i) ==
    IF i > Len(MaskSubheader_ordering) THEN st
    ELSE MaskSubheader_ParseFrom(
             MaskSubheader_parse_attribute(st, MaskSubheader_ordering[i], value),
             value, i + 1)

\* a keyword argument that the caller left out takes its default
Default(arg, default) == IF IsNone(arg) THEN default ELSE Val(arg)

\* MaskSubheader.from_bytes(value, start, band_depth=1, blocks=1): the
\* parsed fields, cls(**fields) and whether logger.error was called
MaskSubheader_from_bytes(value, start, band_depth, blocks) ==
    LET bd == Default(band_depth, 1)
        bl == Default(blocks, 1)
        st == MaskSubheader_ParseFrom(
                  [ok |-> TRUE, fields |-> NewMask(bd, bl), loc |-> start], value, 1)
        out == IF st.ok THEN MaskSubheader_init(bd, bl, st.fields)
               ELSE Raise(NewMask(bd, bl))
        input_length == Len(value) - start
    IN [res |-> out, loc |-> st.loc,
        logged |-> out.ok /\ input_length # MaskSubheader_get_bytes_length(out.self)]

(***************************************************************************)
(* The sizes of the image data.  A Python int that may exceed the range of *)
(* the model's integers is the sequence of its bits, the lowest first and  *)
(* the last one 1, so 0 is <<>> and 6 is <<0, 1, 1>>.  A float is          *)
(* [m, e] and stands for m * 2^e, where m has at most 53 bits unless the   *)
(* rounding carried into a 54th.                                           *)
(***************************************************************************)
RECURSIVE Bits(_)
Bits(n) == IF n = 0 THEN <<>> ELSE <<n % 2>> \o Bits(n \div 2)

Bit(a, i) == IF i <= Len(a) THEN a[i] ELSE 0

\* a without the 0 bits above its highest 1
Trim(a) ==
    LET ones == {0} \cup { i \in 1..Len(a) : a[i] = 1 }
        top == CHOOSE i \in ones : \A k \in ones : k <= i
    IN SubSeq(a, 1, top)

\* a << k
BigShl(a, k) == IF a = <<>> THEN a ELSE [i \in 1..k |-> 0] \o a

\* a >> k
BigShr(a, k) == SubSeq(a, k + 1, Len(a))

\* a + 1
BigInc(a) ==
    LET zeros == { i \in 1..Len(a) : a[i] = 0 } IN
    IF zeros = {} THEN [i \in 1..Len(a) |-> 0] \o <<1>>
    ELSE LET low == CHOOSE i \in zeros : \A k \in zeros : i <= k IN
         [i \in 1..Len(a) |-> IF i < low THEN 0 ELSE IF i = low THEN 1 ELSE a[i]]

\* The product is computed on limbs of 15 bits, the lowest first
LimbBits == 15

LimbBase == 32768

RECURSIVE LimbSum(_, _, _)
LimbSum(a, base, i) ==
    IF i = LimbBits THEN 0
    ELSE Bit(a, base + i + 1) * 2^i + LimbSum(a, base, i + 1)

Limbs(a) ==
    [j \in 1..((Len(a) + LimbBits - 1) \div LimbBits) |->
        LimbSum(a, LimbBits * (j - 1), 0)]

LimbsToBits(l) ==
    Trim([i \in 1..(LimbBits * Len(l)) |->
             (l[((i - 1) \div LimbBits) + 1] \div 2^((i - 1) % LimbBits)) % 2])

RECURSIVE MulLimb(_, _, _)
\* l * d + carry for one limb d
MulLimb(l, d, carry) ==
    IF l = <<>> THEN (IF carry = 0 THEN <<>> ELSE <<carry>>)
    ELSE LET t == Head(l) * d + carry IN
         <<t % LimbBase>> \o MulLimb(Tail(l), d, t \div LimbBase)

RECURSIVE AddLimbs(_, _, _)
AddLimbs(x, y, carry) ==
    IF x = <<>> /\ y = <<>> THEN (IF carry = 0 THEN <<>> ELSE <<carry>>)
    ELSE LET t == (IF x = <<>> THEN 0 ELSE Head(x))
                  + (IF y = <<>> THEN 0 ELSE Head(y)) + carry
         IN <<t % LimbBase>> \o AddLimbs(IF x = <<>> THEN x ELSE Tail(x),
                                         IF y = <<>> THEN y ELSE Tail(y),
                                         t \div LimbBase)

RECURSIVE MulLimbs(_, _)
MulLimbs(x, y) ==
    IF y = <<>> THEN <<>>
    ELSE AddLimbs(MulLimb(x, Head(y), 0), <<0>> \o MulLimbs(x, Tail(y)), 0)

\* a * b
BigMul(a, b) == LimbsToBits(MulLimbs(Limbs(a), Limbs(b)))

\* the width of the significand of a float
MantissaBits == 53

\* p / 8 for an int p: the quotient rounded to the nearest float, to the
\* even one of two that are equally near
truediv8(p) ==
    IF Len(p) <= MantissaBits THEN [m |-> p, e |-> -3]
    ELSE LET k == Len(p) - MantissaBits
             m == BigShr(p, k)
             above == p[k] = 1 /\ \E i \in 1..(k - 1) : p[i] = 1
             tie == p[k] = 1 /\ \A i \in 1..(k - 1) : p[i] = 0
             up == above \/ (tie /\ Head(m) = 1)
         IN [m |-> IF up THEN BigInc(m) ELSE m, e |-> k - 3]

\* int(x) for a float x that is not negative
int_float(x) == IF x.e >= 0 THEN BigShl(x.m, x.e) ELSE BigShr(x.m, -x.e)

\* get_uncompressed_block_size()
get_uncompressed_block_size(self) ==
    LET nppbv == IF self.NPPBV = 0 THEN self.NROWS ELSE self.NPPBV
        nppbh == IF self.NPPBH = 0 THEN self.NCOLS ELSE self.NPPBH
    IN IF self.IMODE = "S"
       THEN int_float(truediv8(BigMul(BigMul(Bits(nppbh), Bits(nppbv)), Bits(self.NBPP))))
       ELSE int_float(truediv8(BigMul(BigMul(BigMul(Bits(nppbh), Bits(nppbv)),
                                             Bits(self.Bands)), Bits(self.NBPP))))

get_full_uncompressed_image_size_allmodes(self) ==
    BigMul(BigMul(Bits(self.NBPR * self.NBPC), Bits(self.Bands)),
           get_uncompressed_block_size(self))

\* get_full_uncompressed_image_size()
get_full_uncompressed_image_size(self) ==
    LET total_blocks == Bits(self.NBPR * self.NBPC) IN
    BigMul(IF self.IMODE = "S" THEN BigMul(total_blocks, Bits(self.Bands))
           ELSE total_blocks,
           get_uncompressed_block_size(self))

get_clevel_below(self) ==
    LET dim_size == IF self.NROWS >= self.NCOLS THEN self.NROWS ELSE self.NCOLS IN
    IF dim_size < 2048 THEN 3
    ELSE IF dim_size < 8192 THEN 5
    ELSE IF dim_size < 65536 THEN 6
    ELSE 7

\* get_clevel(): dim_size = max(self.NROWS, self.NCOLS)
get_clevel(self) ==
    LET dim_size == IF self.NROWS >= self.NCOLS THEN self.NROWS ELSE self.NCOLS IN
    IF dim_size <= 2048 THEN 3
    ELSE IF dim_size <= 8192 THEN 5
    ELSE IF dim_size <= 65536 THEN 6
    ELSE 7

(***************************************************************************)
(* The header as a state machine: an object is built by the constructor or *)
(* decoded from a byte window, and its properties are then assigned.       *)
(***************************************************************************)
\* a 60-character geographic location (four corners, ddmmssXdddmmssY)
GeoText ==
    "323000N0443000E" \o "323000N0444500E" \o "321500N0444500E" \o "321500N0443000E"

ICORDS_inputs == {None, Some(""), Some("G"), Some("N"), Some("C"), Some("X")}

IGEOLO_inputs == {None, Some(GeoText), Some(Blank(60))}

IC_inputs == {None, Some("NC"), Some("NM"), Some("C0"), Some("C1"), Some("M3"), Some("C2")}

COMRAT_inputs == {None, Some("0.75"), Some(Blank(4))}

\* the longest run of other bytes before the decoded window
MaxStart == 1

RECURSIVE Filler(_)
Filler(n) == IF n <= 0 THEN "" ELSE "#" \o Filler(n - 1)

\* the byte windows handed to from_bytes: an ICORDS byte, 60 bytes of
\* IGEOLO or none, two bytes of IC (every code of the enumeration and one
\* outside it), four bytes of COMRAT or none
Windows ==
    { i \o g \o c \o r :
        i \in {" ", "G", "N", "C", "X"}, g \in {"", GeoText},
        c \in IC_values \cup {"C2"}, r \in {"", "0.75"} }

NoKwargs == [ICORDS |-> None, IGEOLO |-> None, IC |-> None, COMRAT |-> None]

Last(op, arg, r, prev, start, loc, used) ==
    [op |-> op, arg |-> arg, raised |-> ~r.ok, prev |-> prev, start |-> start,
     loc |-> loc, used |-> used]

\* header = ImageSegmentHeader(**kwargs) or ImageSegmentHeader0(**kwargs)
Construct ==
    \E v \in Versions, a \in ICORDS_inputs, g \in IGEOLO_inputs,
       c \in IC_inputs, r \in COMRAT_inputs :
        LET kwargs == [ICORDS |-> a, IGEOLO |-> g, IC |-> c, COMRAT |-> r]
            res == __init__(v, kwargs)
        IN /\ hdr = res.self
           /\ hlast = Last("__init__", kwargs, res, NewHeader(v), 0, 0, NoneUsed)

\* header = cls.from_bytes(value, start)
Decode ==
    \E v \in Versions, w \in Windows, start \in 0..MaxStart :
        LET value == Filler(start) \o w
            d == from_bytes(v, value, start)
        IN /\ hdr = d.res.self
           /\ hlast = Last("from_bytes", value, d.res, NewHeader(v), start,
                           d.loc, d.used)

\* a header exists once the constructor or the decode has returned it
HeaderInit == Construct \/ Decode

notHeader == <<band, blast, nvalues, llast, mask, mlast, img, slast>>

Built == ~(hlast.op \in {"__init__", "from_bytes"} /\ hlast.raised)

\* header.IC = value
SetIC ==
    /\ Built
    /\ \E value \in IC_inputs :
        LET res == IC_setter(hdr, value) IN
        /\ hdr' = res.self
        /\ hlast' = Last("IC", value, res, hdr, 0, 0, NoneUsed)
        /\ UNCHANGED notHeader

\* header.COMRAT = value
SetCOMRAT ==
    /\ Built
    /\ \E value \in COMRAT_inputs :
        LET res == COMRAT_setter(hdr, value) IN
        /\ hdr' = res.self
        /\ hlast' = Last("COMRAT", value, res, hdr, 0, 0, NoneUsed)
        /\ UNCHANGED notHeader

\* header.ICORDS = value
SetICORDS ==
    /\ Built
    /\ \E value \in ICORDS_inputs :
        LET res == ICORDS_setter(hdr, value) IN
        /\ hdr' = res.self
        /\ hlast' = Last("ICORDS", value, res, hdr, 0, 0, NoneUsed)
        /\ UNCHANGED notHeader

\* header.IGEOLO = value
SetIGEOLO ==
    /\ Built
    /\ \E value \in IGEOLO_inputs :
        LET res == IGEOLO_setter(hdr, value) IN
        /\ hdr' = res.self
        /\ hlast' = Last("IGEOLO", value, res, hdr, 0, 0, NoneUsed)
        /\ UNCHANGED notHeader

HeaderNext ==
    \/ SetIC
    \/ SetCOMRAT
    \/ SetICORDS
    \/ SetIGEOLO

(***************************************************************************)
(* The image band as a state machine: LUTD is assigned, the band is        *)
(* encoded, and the encoded bytes are decoded into a new band.             *)
(***************************************************************************)
\* the largest numbers of rows and columns of the enumerated tables; the
\* table of shape (2, 100) is drawn besides, and of the tables wider than
\* MaxCols only the shape of one that is too wide
MaxRows == 5

MaxCols == 2

Patterns == {"ramp", "down"}

\* the byte of cell k (counted from 0 in row-major order) of a test table
Cell(pat, k) == IF pat = "ramp" THEN k % 256 ELSE 255 - (k % 256)

Table(rows, cols, pat) ==
    ndarray("uint8", <<rows, cols>>,
            [i \in 1..rows |-> [j \in 1..cols |-> Cell(pat, (i - 1) * cols + (j - 1))]])

\* values that the setter refuses for their type, dtype, dimension or width
\* (the data of an array of another dimension is held as one row, and that
\* of the array that is too wide is left out: the setter reads the shape)
BadValues ==
    { [type |-> "list", dtype |-> "int", shape |-> <<1, 2>>, data |-> <<(<<1, 2>>)>>],
      ndarray("uint16", <<1, 2>>, <<(<<1, 2>>)>>),
      ndarray("uint8", <<3>>, <<(<<1, 2, 3>>)>>),
      ndarray("uint8", <<1, 2, 2>>, <<(<<1, 2, 3, 4>>)>>),
      ndarray("uint8", <<1, MaxNELUTS + 1>>, <<(<<>>)>>) }

LUTD_inputs ==
    {None}
    \cup { Some(Table(r, c, p)) : r \in 0..MaxRows, c \in 0..MaxCols, p \in Patterns }
    \cup { Some(Table(2, 100, "ramp")) }
    \cup { Some(v) : v \in BadValues }

\* bytes before and after the encoded field in the decoded window
Before(n) == [i \in 1..n |-> 35]

Tails == {<<>>, <<49, 50>>, <<77, 32>>}

BLast(op, arg, raised, prev, out, value, start, loc) ==
    [op |-> op, arg |-> arg, raised |-> raised, prev |-> prev, out |-> out,
     value |-> value, start |-> start, loc |-> loc]

\* band = ImageBand()
BandInit ==
    /\ band = ImageBand_init(None).self
    /\ blast = BLast("__init__", None, FALSE, NewBand, <<>>, <<>>, 0, 0)

notBand == <<hdr, hlast, nvalues, llast, mask, mlast, img, slast>>

\* band.LUTD = value
SetLUTD ==
    \E value \in LUTD_inputs :
        LET res == LUTD_setter(band, value) IN
        /\ band' = res.self
        /\ blast' = BLast("LUTD", value, ~res.ok, band, <<>>, <<>>, 0, 0)
        /\ UNCHANGED notBand

\* out = band.to_bytes(), for the LUTD field
ToBytes ==
    /\ band' = band
    /\ blast' = BLast("to_bytes", None, FALSE, band,
                      ImageBand_get_attribute_bytes(band), <<>>, 0, 0)
    /\ UNCHANGED notBand

\* band = ImageBand.from_bytes(value, start), where value holds the bytes
\* just encoded; when it raises, the band is not replaced
FromBytes ==
    /\ blast.op = "to_bytes"
    /\ \E start \in 0..MaxStart, tail \in Tails :
        LET value == Before(start) \o blast.out \o tail
            d == ImageBand_from_bytes(value, start)
        IN /\ band' = IF d.res.ok THEN d.res.self ELSE band
           /\ blast' = BLast("from_bytes", None, ~d.res.ok, band, blast.out,
                             value, start, d.loc)
           /\ UNCHANGED notBand

BandNext ==
    \/ SetLUTD
    \/ ToBytes
    \/ FromBytes

(***************************************************************************)
(* The loop of bands as a state machine: children are assigned, the count  *)
(* is encoded, and the encoded count is parsed.                            *)
(***************************************************************************)
\* every count up to MaxCount is drawn, and the counts where the number of
\* digits changes
MaxCount == 12

Counts == (0..MaxCount) \cup {99, 100, 9999, 10000, 65535, 99999, 100000}

LLast(op, raised, out, value, start, count, loc) ==
    [op |-> op, raised |-> raised, out |-> out, value |-> value,
     start |-> start, count |-> count, loc |-> loc]

\* bands = ImageBands()
LoopInit ==
    /\ nvalues = 0
    /\ llast = LLast("__init__", FALSE, <<>>, <<>>, 0, 0, 0)

notLoop == <<hdr, hlast, band, blast, mask, mlast, img, slast>>

\* bands.values = a tuple of n children
SetValues ==
    \E n \in Counts :
        /\ nvalues' = n
        /\ llast' = LLast("values", FALSE, <<>>, <<>>, 0, 0, 0)
        /\ UNCHANGED notLoop

\* out = bands._counts_bytes()
CountsBytes ==
    /\ nvalues' = nvalues
    /\ llast' = LLast("_counts_bytes", FALSE, ImageBands_counts_bytes(nvalues),
                      <<>>, 0, 0, 0)
    /\ UNCHANGED notLoop

\* the bytes after the encoded count: those after an encoded field, five
\* digits that read as 3, and five zeros before other bytes
CountTails == Tails \cup {<<48, 48, 48, 48, 51>>, <<48, 48, 48, 48, 48, 77, 32>>}

\* count, loc = ImageBands._parse_count(value, start), where value holds the
\* count just encoded
ParseCount ==
    /\ llast.op = "_counts_bytes"
    /\ \E start \in 0..MaxStart, tail \in CountTails :
        LET value == Before(start) \o llast.out \o tail
            r == ImageBands_parse_count(value, start)
        IN /\ nvalues' = nvalues
           /\ llast' = LLast("_parse_count", ~r.ok, llast.out, value, start,
                             r.count, r.loc)
           /\ UNCHANGED notLoop

LoopNext ==
    \/ SetValues
    \/ CountsBytes
    \/ ParseCount

(***************************************************************************)
(* The mask subheader as a state machine: a subheader is built by the      *)
(* constructor or decoded from a byte window; TPXCD, BMR and TMR are then  *)
(* assigned, the subheader is encoded and the encoded bytes are decoded.   *)
(***************************************************************************)
\* the largest band_depth and blocks of the enumerated subheaders
MaxBandDepth == 2

MaxBlocks == 2

Sentinel == <<65535, 65535>>

\* entry k (counted from 0 in row-major order) of a test array
Entry(pat, k) ==
    IF pat = "offsets" THEN <<k, 1024 * k + 3>>
    ELSE IF k % 2 = 0 THEN Sentinel ELSE <<258, 772 + k>>

MaskTable(rows, cols, pat) ==
    ndarray("uint32", <<rows, cols>>,
            [i \in 1..rows |-> [j \in 1..cols |-> Entry(pat, (i - 1) * cols + (j - 1))]])

\* the arrays of every shape up to (MaxBandDepth, MaxBlocks)
MaskTables ==
    { MaskTable(r, c, p) : r \in 1..MaxBandDepth, c \in 1..MaxBlocks,
                           p \in {"offsets", "sentinel"} }

\* a nested list of one row, an array of another dtype and one of another
\* dimension (its data held as one row)
OtherArrays ==
    { [type |-> "list", dtype |-> "int", shape |-> <<1, 1>>, data |-> <<(<<Sentinel>>)>>],
      ndarray("uint16", <<1, 1>>, <<(<<(<<0, 7>>)>>)>>),
      ndarray("uint32", <<2>>, <<(<<(<<0, 7>>), Sentinel>>)>>) }

MR_inputs == {None} \cup { Some(a) : a \in MaskTables \cup OtherArrays }

TPXCD_inputs ==
    { None, Some(bytes(<<255>>)), Some(bytes(<<1, 128>>)),
      Some([type |-> "str", data |-> <<48, 49>>]) }

IMDATOFF_inputs == { <<1, 515>> }

\* TPXCDLNTH of the enumerated subheaders, in bits
TPXCDLNTH_inputs == {0, 9}

\* define_tpxcd_length is also called on every value up to MaxTPXCDLNTH
\* and on the largest values of the two-byte field
MaxTPXCDLNTH == 17

TPXCDLNTH_values == (0..MaxTPXCDLNTH) \cup {65528, 65529, 65535}

\* bytes after the subheader in the decoded buffer
MaskTails == {<<>>, <<7>>}

MLast(op, arg, r, prev, out, value, start, loc, logged, given) ==
    [op |-> op, arg |-> arg, raised |-> ~r.ok, prev |-> prev, out |-> out,
     value |-> value, start |-> start, loc |-> loc, logged |-> logged,
     given |-> given]

\* mask = MaskSubheader(band_depth=bd, blocks=bl, **kwargs)
MaskConstruct ==
    \E bd \in 1..MaxBandDepth, bl \in 1..MaxBlocks, off \in IMDATOFF_inputs,
       bmrlnth \in {0, 4}, tmrlnth \in {0, 4}, tpxcdlnth \in TPXCDLNTH_inputs,
       tpxcd \in {None, Some(bytes(<<255>>)), Some(bytes(<<1, 128>>))} :
    \E bmr \in {None, Some(MaskTable(bd, bl, "offsets")), Some(MaskTable(bd, bl, "sentinel"))},
       tmr \in {None, Some(MaskTable(bd, bl, "sentinel"))} :
        LET kwargs == [IMDATOFF |-> off, BMRLNTH |-> bmrlnth, TMRLNTH |-> tmrlnth,
                       TPXCDLNTH |-> tpxcdlnth, TPXCD |-> tpxcd, BMR |-> bmr, TMR |-> tmr]
            res == MaskSubheader_init(bd, bl, kwargs)
        IN /\ mask = res.self
           /\ mlast = MLast("__init__", kwargs, res, NewMask(bd, bl), <<>>, <<>>,
                            0, 0, FALSE, TRUE)

\* the bytes of n table entries in a buffer from another producer
Records(n) == pack_nI([k \in 1..n |-> Entry("sentinel", k - 1)])

\* mask = MaskSubheader.from_bytes(value, start, band_depth=bd, blocks=bl),
\* or MaskSubheader.from_bytes(value, start), on a buffer from another
\* producer whose length fields are 0, 2 or 4
MaskDecode ==
    \E bd \in 1..MaxBandDepth, bl \in 1..MaxBlocks, given \in BOOLEAN,
       bmrlnth \in {0, 2, 4}, tmrlnth \in {0, 2, 4}, tpxcdlnth \in {0, 9},
       tail \in MaskTails, start \in 0..MaxStart :
        LET value == Before(start) \o pack_I(<<0, 10>>) \o pack_H(bmrlnth)
                     \o pack_H(tmrlnth) \o pack_H(tpxcdlnth)
                     \o (IF tpxcdlnth = 0 THEN <<>> ELSE <<1, 128>>)
                     \o (IF bmrlnth = 0 THEN <<>> ELSE Records(bd * bl))
                     \o (IF tmrlnth = 0 THEN <<>> ELSE Records(bd * bl))
                     \o tail
            d == MaskSubheader_from_bytes(value, start,
                                          IF given THEN Some(bd) ELSE None,
                                          IF given THEN Some(bl) ELSE None)
        IN /\ mask = d.res.self
           /\ mlast = MLast("from_bytes", <<bd, bl>>, d.res, NewMask(bd, bl), <<>>,
                            value, start, d.loc, d.logged, given)

MaskInit == MaskConstruct \/ MaskDecode

notMask == <<hdr, hlast, band, blast, nvalues, llast, img, slast>>

MaskBuilt == ~(mlast.op \in {"__init__", "from_bytes"} /\ mlast.raised)

\* mask.BMR = value
SetBMR ==
    /\ MaskBuilt
    /\ \E value \in MR_inputs :
        LET res == BMR_setter(mask, value) IN
        /\ mask' = res.self
        /\ mlast' = MLast("BMR", value, res, mask, <<>>, <<>>, 0, 0, FALSE, TRUE)
        /\ UNCHANGED notMask

\* mask.TMR = value
SetTMR ==
    /\ MaskBuilt
    /\ \E value \in MR_inputs :
        LET res == TMR_setter(mask, value) IN
        /\ mask' = res.self
        /\ mlast' = MLast("TMR", value, res, mask, <<>>, <<>>, 0, 0, FALSE, TRUE)
        /\ UNCHANGED notMask

\* mask.TPXCD = value
SetTPXCD ==
    /\ MaskBuilt
    /\ \E value \in TPXCD_inputs :
        LET res == TPXCD_setter(mask, value) IN
        /\ mask' = res.self
        /\ mlast' = MLast("TPXCD", value, res, mask, <<>>, <<>>, 0, 0, FALSE, TRUE)
        /\ UNCHANGED notMask

\* MaskSubheader.define_tpxcd_length(tpxcdlnth)
DefineTPXCDLength ==
    /\ MaskBuilt
    /\ \E tpxcdlnth \in TPXCDLNTH_values :
        /\ mlast' = MLast("define_tpxcd_length", tpxcdlnth, Ok(mask), mask,
                          define_tpxcd_length(tpxcdlnth), <<>>, 0, 0, FALSE, TRUE)
        /\ UNCHANGED <<mask, notMask>>

\* mask.to_bytes()
MaskToBytes ==
    /\ MaskBuilt
    /\ mlast' = MLast("to_bytes", None, Ok(mask), mask, MaskSubheader_to_bytes(mask),
                      <<>>, 0, 0, FALSE, TRUE)
    /\ UNCHANGED <<mask, notMask>>

\* MaskSubheader.from_bytes(value, start, band_depth, blocks) on the bytes
\* that to_bytes returned, with the band_depth and blocks of the encoded
\* subheader, or MaskSubheader.from_bytes(value, start)
MaskFromBytes ==
    /\ mlast.op = "to_bytes"
    /\ \E start \in 0..MaxStart, tail \in MaskTails, given \in BOOLEAN :
        LET value == Before(start) \o mlast.out \o tail
            d == MaskSubheader_from_bytes(value, start,
                                          IF given THEN Some(mask.band_depth) ELSE None,
                                          IF given THEN Some(mask.blocks) ELSE None)
        IN /\ mask' = d.res.self
           /\ mlast' = MLast("from_bytes", <<mask.band_depth, mask.blocks>>, d.res, mask,
                             mlast.out, value, start, d.loc, d.logged, given)
           /\ UNCHANGED notMask

MaskNext ==
    \/ SetBMR
    \/ SetTMR
    \/ SetTPXCD
    \/ DefineTPXCDLength
    \/ MaskToBytes
    \/ MaskFromBytes

(***************************************************************************)
(* The fields of a mask subheader as a state machine: a subheader without  *)
(* tables is built, and each of its seven fields is then assigned.         *)
(***************************************************************************)
\* the record lengths assigned to BMRLNTH and TMRLNTH, and one value that
\* the two-byte field does not hold
MRLNTH_inputs == {0, 4, 65536}

IMDATOFF_values == { <<0, 10>>, <<1, 515>> }

\* mask = MaskSubheader(band_depth=bd, blocks=bl, IMDATOFF=10, BMRLNTH=0,
\*                      TMRLNTH=0, TPXCDLNTH=0)
FieldsInit ==
    \E bd \in 1..MaxBandDepth, bl \in 1..MaxBlocks :
        LET kwargs == [IMDATOFF |-> <<0, 10>>, BMRLNTH |-> 0, TMRLNTH |-> 0,
                       TPXCDLNTH |-> 0, TPXCD |-> None, BMR |-> None, TMR |-> None]
            res == MaskSubheader_init(bd, bl, kwargs)
        IN /\ mask = res.self
           /\ mlast = MLast("__init__", kwargs, res, NewMask(bd, bl), <<>>, <<>>,
                            0, 0, FALSE, TRUE)

\* mask.IMDATOFF = value
SetIMDATOFF ==
    /\ MaskBuilt
    /\ \E value \in IMDATOFF_values :
        LET res == IMDATOFF_set(mask, value) IN
        /\ mask' = res.self
        /\ mlast' = MLast("IMDATOFF", value, res, mask, <<>>, <<>>, 0, 0, FALSE, TRUE)
        /\ UNCHANGED notMask

\* mask.BMRLNTH = value
SetBMRLNTH ==
    /\ MaskBuilt
    /\ \E value \in MRLNTH_inputs :
        LET res == _IntegerDescriptor_set(mask, "BMRLNTH", value) IN
        /\ mask' = res.self
        /\ mlast' = MLast("BMRLNTH", value, res, mask, <<>>, <<>>, 0, 0, FALSE, TRUE)
        /\ UNCHANGED notMask

\* mask.TMRLNTH = value
SetTMRLNTH ==
    /\ MaskBuilt
    /\ \E value \in MRLNTH_inputs :
        LET res == _IntegerDescriptor_set(mask, "TMRLNTH", value) IN
        /\ mask' = res.self
        /\ mlast' = MLast("TMRLNTH", value, res, mask, <<>>, <<>>, 0, 0, FALSE, TRUE)
        /\ UNCHANGED notMask

\* mask.TPXCDLNTH = value
SetTPXCDLNTH ==
    /\ MaskBuilt
    /\ \E value \in TPXCDLNTH_inputs :
        LET res == _IntegerDescriptor_set(mask, "TPXCDLNTH", value) IN
        /\ mask' = res.self
        /\ mlast' = MLast("TPXCDLNTH", value, res, mask, <<>>, <<>>, 0, 0, FALSE, TRUE)
        /\ UNCHANGED notMask

FieldsNext ==
    \/ SetIMDATOFF
    \/ SetBMRLNTH
    \/ SetTMRLNTH
    \/ SetTPXCDLNTH
    \/ SetTPXCD
    \/ SetBMR
    \/ SetTMR

(***************************************************************************)
(* The sizes as a state machine: a header holds the fields that the two    *)
(* size queries read (Bands is len(self.Bands)), and the queries are       *)
(* called on it.                                                           *)
(***************************************************************************)
NROWS_inputs == {3, 512, 99999999}

NCOLS_inputs == {5, 512, 99999999}

NPPBH_inputs == {0, 4}

NPPBV_inputs == {0, 7}

NBPP_inputs == {1, 16, 99}

IMODE_values == {"B", "P", "R", "S"}

\* the largest number of bands and of blocks per row and per column
MaxBands == 2

MaxNBPR == 2

MaxNBPC == 2

SLast(op, out) == [op |-> op, out |-> out]

\* header = ImageSegmentHeader(NROWS=..., ..., Bands=...)
SizeInit ==
    \E nrows \in NROWS_inputs, ncols \in NCOLS_inputs, nppbh \in NPPBH_inputs,
       nppbv \in NPPBV_inputs, nbpp \in NBPP_inputs, imode \in {"P", "S"},
       nbands \in 1..MaxBands, nbpr \in 1..MaxNBPR, nbpc \in 1..MaxNBPC :
        /\ img = [NROWS |-> nrows, NCOLS |-> ncols, NPPBH |-> nppbh, NPPBV |-> nppbv,
                  NBPP |-> nbpp, IMODE |-> imode, Bands |-> nbands,
                  NBPR |-> nbpr, NBPC |-> nbpc]
        /\ slast = SLast("__init__", <<>>)

notSize == <<hdr, hlast, band, blast, nvalues, llast, mask, mlast>>

\* header.IMODE = value
SetIMODE ==
    \E value \in IMODE_values :
        /\ img' = [img EXCEPT !.IMODE = value]
        /\ slast' = SLast("IMODE", <<>>)
        /\ UNCHANGED notSize

\* header.get_uncompressed_block_size()
GetUncompressedBlockSize ==
    /\ slast' = SLast("get_uncompressed_block_size", get_uncompressed_block_size(img))
    /\ UNCHANGED <<img, notSize>>

\* header.get_full_uncompressed_image_size()
GetFullUncompressedImageSize ==
    /\ slast' = SLast("get_full_uncompressed_image_size",
                      get_full_uncompressed_image_size(img))
    /\ UNCHANGED <<img, notSize>>

SizeNext ==
    \/ SetIMODE
    \/ GetUncompressedBlockSize
    \/ GetFullUncompressedImageSize

(***************************************************************************)
(* The complexity level as a state machine: a header holds NROWS and       *)
(* NCOLS, they are assigned, and get_clevel() is called on it.             *)
(***************************************************************************)
\* the dimensions on either side of each threshold of get_clevel, the
\* smallest ones and the largest that the 8-digit fields hold
Dims == {0, 1, 2047, 2048, 2049, 8191, 8192, 8193, 65535, 65536, 65537, 99999999}

\* header = ImageSegmentHeader(NROWS=..., NCOLS=...)
ClevelInit ==
    \E nrows \in Dims, ncols \in Dims :
        /\ img = [NROWS |-> nrows, NCOLS |-> ncols, NPPBH |-> 0, NPPBV |-> 0,
                  NBPP |-> 0, IMODE |-> "P", Bands |-> 0, NBPR |-> 1, NBPC |-> 1]
        /\ slast = SLast("__init__", <<>>)

\* header.NROWS = value
SetNROWS ==
    \E value \in Dims :
        /\ img' = [img EXCEPT !.NROWS = value]
        /\ slast' = SLast("NROWS", <<>>)
        /\ UNCHANGED notSize

\* header.NCOLS = value
SetNCOLS ==
    \E value \in Dims :
        /\ img' = [img EXCEPT !.NCOLS = value]
        /\ slast' = SLast("NCOLS", <<>>)
        /\ UNCHANGED notSize

\* header.get_clevel()
GetClevel ==
    /\ slast' = SLast("get_clevel", get_clevel(img))
    /\ UNCHANGED <<img, notSize>>

ClevelNext ==
    \/ SetNROWS
    \/ SetNCOLS
    \/ GetClevel

(***************************************************************************)
(* The header and its mask subheader as a state machine: a header is built *)
(* with an IC code, and IC and mask_subheader are then assigned.  An       *)
(* object handed to the mask_subheader setter is [type, self].             *)
(***************************************************************************)
\* the codes of the two enumerations and three that are in neither
IC_codes == IC_values \cup IC_values0 \cup {"C2", "M0", "XX"}

Masks == { [type |-> "MaskSubheader", self |-> NewMask(1, b)] : b \in 1..MaxBlocks }

\* a mapping with the fields of a subheader, not a MaskSubheader
NotAMask == [type |-> "dict", self |-> NewMask(1, 1)]

mask_subheader_inputs == {None} \cup { Some(m) : m \in Masks \cup {NotAMask} }

\* header = ImageSegmentHeader(IC=c) or ImageSegmentHeader0(IC=c)
AttachInit ==
    \E v \in Versions, c \in IC_values :
        LET kwargs == [NoKwargs EXCEPT !.IC = Some(c)]
            res == __init__(v, kwargs)
        IN /\ hdr = res.self
           /\ hlast = Last("__init__", kwargs, res, NewHeader(v), 0, 0, NoneUsed)

\* header.IC = value, for every code
SetICCode ==
    /\ Built
    /\ \E value \in IC_codes :
        LET res == IC_setter(hdr, Some(value)) IN
        /\ hdr' = res.self
        /\ hlast' = Last("IC", Some(value), res, hdr, 0, 0, NoneUsed)
        /\ UNCHANGED notHeader

\* header.mask_subheader = value
SetMaskSubheader ==
    /\ Built
    /\ \E value \in mask_subheader_inputs :
        LET res == mask_subheader_setter(hdr, value) IN
        /\ hdr' = res.self
        /\ hlast' = Last("mask_subheader", value, res, hdr, 0, 0, NoneUsed)
        /\ UNCHANGED notHeader

AttachNext ==
    \/ SetICCode
    \/ SetMaskSubheader

(***************************************************************************)
(* Specifications: one object is exercised, the others stay as built       *)
(***************************************************************************)
HeaderIdle ==
    /\ hdr = __init__("2.1", NoKwargs).self
    /\ hlast = Last("__init__", NoKwargs, Ok(hdr), NewHeader("2.1"), 0, 0, NoneUsed)

IdleKwargs ==
    [IMDATOFF |-> <<0, 10>>, BMRLNTH |-> 0, TMRLNTH |-> 0, TPXCDLNTH |-> 0,
     TPXCD |-> None, BMR |-> None, TMR |-> None]

MaskIdle ==
    /\ mask = MaskSubheader_init(1, 1, IdleKwargs).self
    /\ mlast = MLast("__init__", IdleKwargs, Ok(mask), NewMask(1, 1), <<>>, <<>>,
                     0, 0, FALSE, TRUE)

SizeIdle ==
    /\ img = [NROWS |-> 0, NCOLS |-> 0, NPPBH |-> 0, NPPBV |-> 0, NBPP |-> 0,
              IMODE |-> "P", Bands |-> 0, NBPR |-> 1, NBPC |-> 1]
    /\ slast = SLast("__init__", <<>>)

InitHeader == HeaderInit /\ BandInit /\ LoopInit /\ MaskIdle /\ SizeIdle

InitBand == HeaderIdle /\ BandInit /\ LoopInit /\ MaskIdle /\ SizeIdle

InitLoop == HeaderIdle /\ BandInit /\ LoopInit /\ MaskIdle /\ SizeIdle

InitMask == HeaderIdle /\ BandInit /\ LoopInit /\ MaskInit /\ SizeIdle

InitAttach == AttachInit /\ BandInit /\ LoopInit /\ MaskIdle /\ SizeIdle

InitSize == HeaderIdle /\ BandInit /\ LoopInit /\ MaskIdle /\ SizeInit

InitClevel == HeaderIdle /\ BandInit /\ LoopInit /\ MaskIdle /\ ClevelInit

InitFields == HeaderIdle /\ BandInit /\ LoopInit /\ FieldsInit /\ SizeIdle

SpecHeader == InitHeader /\ [][HeaderNext]_vars

SpecBand == InitBand /\ [][BandNext]_vars

SpecLoop == InitLoop /\ [][LoopNext]_vars

SpecMask == InitMask /\ [][MaskNext]_vars

SpecAttach == InitAttach /\ [][AttachNext]_vars

SpecSize == InitSize /\ [][SizeNext]_vars

SpecClevel == InitClevel /\ [][ClevelNext]_vars

SpecFields == InitFields /\ [][FieldsNext]_vars

(***************************************************************************)
(* Claims about the image segment header                                   *)
(***************************************************************************)
Uncompressed == {Some("NC"), Some("NM")}

FromScratch == hlast.op \in {"__init__", "from_bytes"} /\ ~hlast.raised

\* C1: assigning IC an uncompressed code ('NC', 'NM') leaves COMRAT None,
\* and assigning IC a compressed code while COMRAT is None leaves COMRAT
\* reading as four spaces.
C1_ICSetsCOMRAT ==
    (hlast.op = "IC" /\ ~hlast.raised) =>
        /\ hdr.IC \in Uncompressed => IsNone(hdr.COMRAT)
        /\ (hdr.IC \notin Uncompressed /\ IsNone(hlast.prev.COMRAT)) =>
               hdr.COMRAT = Some(Blank(4))

\* C2: in every state reached by IC and COMRAT assignments on a constructed
\* header, COMRAT is not None exactly when IC is not 'NC' or 'NM', and the
\* width of COMRAT on encode is 4 in that case and 0 otherwise.
C2_COMRATPresent ==
    Built =>
        /\ ~IsNone(hdr.COMRAT) <=> hdr.IC \notin Uncompressed
        /\ _get_attribute_length(hdr, "COMRAT") =
               (IF hdr.IC \notin Uncompressed THEN 4 ELSE 0)

\* C3: a NITF 2.1 header built by the constructor or by decode has IGEOLO
\* None, occupying no bytes, when ICORDS is blank; when ICORDS is 'G' its
\* IGEOLO is present and its field is exactly 60 characters wide, and it is
\* 60 spaces when no value was supplied.
C3_IGEOLOPresence ==
    (FromScratch /\ hdr.version = "2.1") =>
        /\ hdr.ICORDS = "" =>
               /\ IsNone(hdr.IGEOLO)
               /\ _get_attribute_length(hdr, "IGEOLO") = 0
               /\ _get_attribute_bytes(hdr, "IGEOLO") = ""
        /\ hdr.ICORDS = "G" =>
               /\ ~IsNone(hdr.IGEOLO)
               /\ _get_attribute_length(hdr, "IGEOLO") = 60
               /\ Len(_get_attribute_bytes(hdr, "IGEOLO")) = 60
               /\ (hlast.op = "__init__" /\ IsNone(hlast.arg.IGEOLO)) =>
                      hdr.IGEOLO = Some(Blank(60))

\* C3 witness: both cases happen, each by the constructor and by decode
C3_Witness_Blank ==
    /\ FromScratch /\ hdr.version = "2.1" /\ hdr.ICORDS = ""
    /\ hlast.op = "__init__" /\ hlast.arg.IGEOLO = Some(GeoText)

C3_Witness ==
    /\ FromScratch /\ hdr.version = "2.1" /\ hdr.ICORDS = "G"
    /\ hlast.op = "from_bytes" /\ hdr.IGEOLO = Some(GeoText)

\* C4: in every state of a NITF 2.1 header reached by ICORDS and IGEOLO
\* assignments after construction, IGEOLO is None if and only if ICORDS is
\* blank.
C4_IGEOLOFollowsICORDS ==
    (Built /\ hdr.version = "2.1") => (IsNone(hdr.IGEOLO) <=> hdr.ICORDS = "")

\* C5: in a NITF 2.0 header, after construction or decode, IGEOLO is None
\* (no bytes on encode) if and only if ICORDS is 'N'; for 'U', 'G' and 'C'
\* it is a 60-character field.
C5_LegacyIGEOLO ==
    (FromScratch /\ hdr.version = "2.0") =>
        /\ IsNone(hdr.IGEOLO) <=> hdr.ICORDS = "N"
        /\ _get_attribute_length(hdr, "IGEOLO") =
               (IF hdr.ICORDS = "N" THEN 0 ELSE 60)

\* C6: for both versions and every window that decodes, the decoded header
\* re-encodes IGEOLO and COMRAT to as many bytes as the decode consumed for
\* them, so the encoded length equals the bytes consumed.
C6_EncodedLengthIsConsumed ==
    (hlast.op = "from_bytes" /\ ~hlast.raised) =>
        /\ _get_attribute_length(hdr, "IGEOLO") = hlast.used.IGEOLO
        /\ _get_attribute_length(hdr, "COMRAT") = hlast.used.COMRAT
        /\ get_bytes_length(hdr) = hlast.loc - hlast.start
        /\ Len(to_bytes(hdr)) = hlast.loc - hlast.start

(***************************************************************************)
(* Claims about the loop count and the image band                          *)
(***************************************************************************)
RECURSIVE Pow10(_)
Pow10(k) == IF k = 0 THEN 1 ELSE 10 * Pow10(k - 1)

\* the ASCII byte of the digit of n at 10^k
DigitByte(n, k) == 48 + ((n \div Pow10(k)) % 10)

\* n as five ASCII digits
FiveDigits(n) == [d \in 1..5 |-> DigitByte(n, 5 - d)]

\* C7: a loop of n children, 1 <= n <= 9, encodes its count as the one
\* digit n; one of 10 <= n <= 99999 children as '0' and n in five digits;
\* parsing either form returns n and advances by the bytes written, 1 or 6.
C7_CountEncoding ==
    /\ (llast.op = "_counts_bytes" /\ nvalues \in 1..9) =>
           llast.out = <<48 + nvalues>>
    /\ (llast.op = "_counts_bytes" /\ nvalues \in 10..99999) =>
           llast.out = <<48>> \o FiveDigits(nvalues)
    /\ (llast.op = "_parse_count" /\ nvalues \in 1..99999) =>
           /\ ~llast.raised
           /\ llast.count = nvalues
           /\ llast.loc - llast.start = Len(llast.out)
           /\ Len(llast.out) = (IF nvalues <= 9 THEN 1 ELSE 6)

\* C7 witness: the count 10 was written as "000010" and parsed back
C7_Witness ==
    /\ llast.op = "_parse_count" /\ nvalues = 10
    /\ llast.out = <<48, 48, 48, 48, 49, 48>>
    /\ llast.count = 10 /\ llast.loc - llast.start = 6

\* C8: LUTD None encodes to the one byte '0'; an array of shape
\* (NLUTS, NELUTS) with NLUTS >= 1 encodes to the digit NLUTS, NELUTS in
\* five digits and the NLUTS*NELUTS table bytes in row-major order, and the
\* reported length of the field is 6 + NLUTS*NELUTS.
C8_LUTDEncoding ==
    blast.op = "to_bytes" =>
        /\ IsNone(band.LUTD) => blast.out = <<48>>
        /\ (~IsNone(band.LUTD) /\ Val(band.LUTD).shape[1] >= 1) =>
               LET a == Val(band.LUTD)
                   n == a.shape[1]
                   m == a.shape[2]
               IN /\ Len(blast.out) = 6 + n * m
                  /\ ImageBand_get_attribute_length(band) = 6 + n * m
                  /\ blast.out[1] = 48 + n
                  /\ SubSeq(blast.out, 2, 6) = FiveDigits(m)
                  /\ \A i \in 1..n, j \in 1..m :
                         blast.out[6 + (i - 1) * m + j] = a.data[i][j]

\* C8 witness: a table of shape (2, 100) was encoded to 206 bytes
C8_Witness ==
    /\ blast.op = "to_bytes" /\ ~IsNone(band.LUTD)
    /\ Val(band.LUTD).shape = <<2, 100>>
    /\ SubSeq(blast.out, 1, 6) = <<50, 48, 48, 49, 48, 48>>
    /\ Len(blast.out) = 206

\* C9: for every LUTD the setter accepts (None, or a uint8 array of at most
\* 4 rows and 65536 columns, arrays of 0 rows or 0 columns included),
\* decoding the encoded field gives a LUTD equal to the original in shape
\* and contents and consumes exactly the bytes that were encoded.
C9_LUTDRoundTrip ==
    blast.op = "from_bytes" =>
        /\ ~blast.raised
        /\ band.LUTD = blast.prev.LUTD
        /\ blast.loc - blast.start = Len(blast.out)

\* what C10 calls a value that is not acceptable
Refused(v) ==
    \/ v.type # "ndarray"
    \/ v.dtype # "uint8"
    \/ Len(v.shape) # 2
    \/ v.shape[1] > 4
    \/ v.shape[2] > 65536

\* C10: assigning LUTD a value that is no uint8 array, is not
\* two-dimensional, has more than 4 rows or more than 65536 columns fails
\* at the assignment, and the LUTD held before (hence NLUTS, NELUTS and the
\* encoded bytes) is unchanged.
C10_LUTDRefused ==
    (blast.op = "LUTD" /\ ~IsNone(blast.arg) /\ Refused(Val(blast.arg))) =>
        /\ blast.raised
        /\ band = blast.prev
        /\ NLUTS(band) = NLUTS(blast.prev) /\ NELUTS(band) = NELUTS(blast.prev)
        /\ ImageBand_get_attribute_bytes(band) = ImageBand_get_attribute_bytes(blast.prev)

\* C10 witness: a table of five rows was refused by a band that holds a table
C10_Witness ==
    /\ blast.op = "LUTD" /\ blast.raised
    /\ ~IsNone(blast.arg) /\ Val(blast.arg).shape = <<5, 2>>
    /\ ~IsNone(band.LUTD) /\ band = blast.prev

(***************************************************************************)
(* Claims about the mask subheader                                         *)
(***************************************************************************)
Shape(m) == <<m.band_depth, m.blocks>>

\* C11: assigning BMR or TMR an array whose shape is not (band_depth, blocks)
\* raises and leaves the subheader as it was; a uint32 array of exactly that
\* shape is accepted and stored when the matching length field is 4
C11_MaskArrayShape ==
    \A fld \in {"BMR", "TMR"} :
        (mlast.op = fld /\ ~IsNone(mlast.arg)) =>
            LET v == Val(mlast.arg) IN
            /\ v.shape # Shape(mlast.prev) => (mlast.raised /\ mask = mlast.prev)
            /\ ( /\ v.type = "ndarray"
                 /\ v.dtype = "uint32"
                 /\ v.shape = Shape(mlast.prev)
                 /\ mlast.prev[fld \o "LNTH"] = 4 )
               => (~mlast.raised /\ mask = [mlast.prev EXCEPT ![fld] = mlast.arg])

\* a wrongly shaped array was refused while an array was held and the
\* length field was 4
C11_Witness ==
    /\ mlast.op = "BMR"
    /\ mlast.raised
    /\ ~IsNone(mlast.arg)
    /\ Val(mlast.arg).dtype = "uint32"
    /\ Val(mlast.arg).shape = <<1, 2>>
    /\ Shape(mask) = <<2, 1>>
    /\ mask.BMRLNTH = 4
    /\ ~IsNone(mask.BMR)

\* k is the smallest integer with 8 * k >= t
IsCeil8(k, t) == 8 * k >= t /\ 8 * (k - 1) < t

\* the subheader holds each optional field exactly when its length field
\* says so: the state of every subheader that the constructor returns
WellFormed(m) ==
    /\ m.BMRLNTH \in {0, 4}
    /\ m.TMRLNTH \in {0, 4}
    /\ IsNone(m.BMR) <=> m.BMRLNTH = 0
    /\ IsNone(m.TMR) <=> m.TMRLNTH = 0
    /\ ~IsNone(m.BMR) => Val(m.BMR).shape = Shape(m)
    /\ ~IsNone(m.TMR) => Val(m.TMR).shape = Shape(m)
    /\ IsNone(m.TPXCD) <=> m.TPXCDLNTH = 0
    /\ ~IsNone(m.TPXCD) => IsCeil8(Len(Val(m.TPXCD).data), m.TPXCDLNTH)

\* the last operation decoded the bytes that to_bytes returned, with the
\* band_depth and blocks of the encoded subheader
RoundTrip ==
    /\ mlast.op = "from_bytes"
    /\ mlast.out # <<>>
    /\ mlast.given

\* C12: a subheader with length fields in {0, 4} and correctly shaped arrays,
\* encoded and decoded with the same band_depth and blocks, comes back with
\* the same IMDATOFF, length fields, TPXCD, BMR and TMR, entry for entry
C12_MaskRoundTrip ==
    (RoundTrip /\ WellFormed(mlast.prev)) => (~mlast.raised /\ mask = mlast.prev)

\* a 2 x 2 block mask holding the sentinel and a transparent mask came back
C12_Witness ==
    /\ RoundTrip
    /\ ~mlast.raised
    /\ Shape(mask) = <<2, 2>>
    /\ ~IsNone(mask.BMR)
    /\ Val(mask.BMR).data[1][1] = Sentinel
    /\ Val(mask.BMR).data[2][1] = Sentinel
    /\ Val(mask.BMR).data[1][2] = <<258, 773>>
    /\ ~IsNone(mask.TMR)
    /\ ~IsNone(mask.TPXCD)

\* the length fields and the bytes of the decoded buffer
FieldAt(off) == unpack_H(SubSeq(mlast.value, mlast.start + off + 1, mlast.start + off + 2))

\* the table of the decoded buffer that starts off bytes into the subheader
TableAt(off) ==
    LET count == mask.band_depth * mask.blocks IN
    resize(unpack_nI(count, SubSeq(mlast.value, mlast.start + off + 1,
                                   mlast.start + off + 4 * count)),
           mask.band_depth, mask.blocks)

\* C13: from_bytes succeeds for every value of BMRLNTH and TMRLNTH; a table
\* whose length field is 0 is None and takes no bytes, and for every other
\* value of the length field band_depth * blocks big-endian 32-bit values
\* are read and shaped (band_depth, blocks)
C13_DecodeArrays ==
    (mlast.op = "from_bytes" /\ mlast.given) =>
        LET count == mask.band_depth * mask.blocks
            tpxcd == define_tpxcd_length(FieldAt(8))
            bmr == IF FieldAt(4) = 0 THEN 0 ELSE 4 * count
            tmr == IF FieldAt(6) = 0 THEN 0 ELSE 4 * count
        IN /\ ~mlast.raised
           /\ mask.BMR = (IF FieldAt(4) = 0 THEN None ELSE Some(TableAt(10 + tpxcd)))
           /\ mask.TMR = (IF FieldAt(6) = 0 THEN None ELSE Some(TableAt(10 + tpxcd + bmr)))
           /\ mlast.loc = mlast.start + 10 + tpxcd + bmr + tmr

\* C14: the TPXCD byte length that define_tpxcd_length returns, that the
\* field reports, that the setter requires and that the decode reads is the
\* smallest k with 8 * k >= TPXCDLNTH, and a decoded TPXCD is None exactly
\* when that length is 0
C14_TPXCDLength ==
    /\ mlast.op = "define_tpxcd_length" => IsCeil8(mlast.out, mlast.arg)
    /\ IsCeil8(MaskSubheader_get_attribute_length(mask, "TPXCD"), mask.TPXCDLNTH)
    /\ ( /\ mlast.op = "TPXCD"
         /\ mlast.prev.TPXCDLNTH # 0
         /\ ~IsNone(mlast.arg)
         /\ Val(mlast.arg).type = "bytes" )
       => (~mlast.raised <=> IsCeil8(Len(Val(mlast.arg).data), mlast.prev.TPXCDLNTH))
    /\ (mlast.op = "from_bytes" /\ ~mlast.raised) =>
           /\ IsNone(mask.TPXCD) <=> IsCeil8(0, FieldAt(8))
           /\ ~IsNone(mask.TPXCD) => IsCeil8(Len(Val(mask.TPXCD).data), FieldAt(8))
           /\ mask.TPXCDLNTH = FieldAt(8)

\* the length of the largest TPXCDLNTH that is no multiple of 8 was asked
C14_Witness ==
    /\ mlast.op = "define_tpxcd_length"
    /\ mlast.arg = 65529
    /\ mlast.out = 8192

\* C15: from_bytes logs an error, and still returns the subheader, exactly
\* when the number of bytes that the decode consumed differs from the length
\* that the decoded subheader encodes to, whatever follows in the buffer
C15_LenientLengthCheck ==
    (mlast.op = "from_bytes" /\ ~mlast.raised) =>
        (mlast.logged <=> (mlast.loc - mlast.start # MaskSubheader_get_bytes_length(mask)))

\* C16: from_bytes without band_depth and blocks raises
C16_ContextRequired ==
    (mlast.op = "from_bytes" /\ ~mlast.given) => mlast.raised

(***************************************************************************)
(* Claims about the header's mask subheader and IC                         *)
(***************************************************************************)
MaskedCodes == {"NM", "M1", "M3", "M4", "M5", "M6", "M7", "M8"}

\* C17: assigning a MaskSubheader to mask_subheader succeeds only when IC is
\* one of NM, M1, M3, M4, M5, M6, M7, M8; otherwise, and for a value that is
\* no MaskSubheader, it raises and the header keeps what was attached;
\* assigning None always succeeds and detaches
C17_MaskAttach ==
    hlast.op = "mask_subheader" =>
        IF IsNone(hlast.arg)
        THEN ~hlast.raised /\ hdr = [hlast.prev EXCEPT !.mask_subheader = None]
        ELSE IF Val(hlast.arg).type = "MaskSubheader" /\ Val(hlast.prev.IC) \in MaskedCodes
             THEN ~hlast.raised /\ hdr = [hlast.prev EXCEPT !.mask_subheader = hlast.arg]
             ELSE hlast.raised /\ hdr = hlast.prev

\* a second subheader was refused for the IC code, and the first one stayed
C17_Witness ==
    /\ hlast.op = "mask_subheader"
    /\ hlast.raised
    /\ ~IsNone(hlast.arg)
    /\ Val(hlast.arg).type = "MaskSubheader"
    /\ ~IsNone(hdr.mask_subheader)
    /\ hdr.mask_subheader # hlast.arg
    /\ hdr.IC = Some("C3")

IC_current ==
    {"NC", "NM", "C0", "C1", "C3", "C4", "C5", "C6", "C7", "C8", "I1",
     "M1", "M3", "M4", "M5", "M6", "M7", "M8"}

\* C18: assigning IC a code outside the enumeration of the version raises
\* and leaves IC and COMRAT as they were; NITF 2.1 accepts exactly the 18
\* codes of IC_current and NITF 2.0 exactly those but C0
C18_ICEnumeration ==
    (hlast.op = "IC" /\ ~IsNone(hlast.arg)) =>
        LET accepted == IF hdr.version = "2.1" THEN IC_current ELSE IC_current \ {"C0"} IN
        /\ hlast.raised <=> Val(hlast.arg) \notin accepted
        /\ hlast.raised => (hdr.IC = hlast.prev.IC /\ hdr.COMRAT = hlast.prev.COMRAT)
        /\ ~hlast.raised => hdr.IC = hlast.arg

\* the legacy header refused C0 and kept its code
C18_Witness ==
    /\ hlast.op = "IC"
    /\ hlast.raised
    /\ hlast.arg = Some("C0")
    /\ hdr.version = "2.0"
    /\ hdr.IC = Some("M3")

(***************************************************************************)
(* Claims about the sizes                                                  *)
(***************************************************************************)
\* H * V * NBPP * K, where a zero NPPBH or NPPBV stands for NCOLS or NROWS
\* and K is the number of bands, or 1 when IMODE is S
BlockBits ==
    LET H == IF img.NPPBH = 0 THEN img.NCOLS ELSE img.NPPBH
        V == IF img.NPPBV = 0 THEN img.NROWS ELSE img.NPPBV
        K == IF img.IMODE = "S" THEN 1 ELSE img.Bands
    IN BigMul(BigMul(BigMul(Bits(H), Bits(V)), Bits(img.NBPP)), Bits(K))

\* C19: get_uncompressed_block_size returns floor(H * V * NBPP * K / 8); for
\* 512 rows and columns, NPPBH = NPPBV = 0, one band, 16 bits and an IMODE
\* other than S that is 524288
C19_BlockSize ==
    slast.op = "get_uncompressed_block_size" =>
        /\ slast.out = BigShr(BlockBits, 3)
        /\ ( /\ img.NROWS = 512 /\ img.NCOLS = 512 /\ img.NPPBH = 0 /\ img.NPPBV = 0
             /\ img.Bands = 1 /\ img.NBPP = 16 /\ img.IMODE # "S" )
           => slast.out = Bits(524288)

\* C20: get_full_uncompressed_image_size returns the uncompressed block size
\* times NBPR times NBPC, and times the number of bands as well exactly when
\* IMODE is S
C20_FullSize ==
    slast.op = "get_full_uncompressed_image_size" =>
        LET blocks == BigMul(BigMul(get_uncompressed_block_size(img), Bits(img.NBPR)),
                             Bits(img.NBPC))
        IN slast.out = (IF img.IMODE = "S" THEN BigMul(blocks, Bits(img.Bands))
                        ELSE blocks)

\* the size of a band-sequential image of two bands and 2 x 2 blocks
C20_Witness ==
    /\ slast.op = "get_full_uncompressed_image_size"
    /\ img.IMODE = "S"
    /\ img.Bands = 2
    /\ img.NBPR = 2
    /\ img.NBPC = 2
    /\ img.NBPP = 16
    /\ slast.out # <<>>

(***************************************************************************)
(* Claims about the derived properties and the widths of decode            *)
(***************************************************************************)
\* max(NROWS, NCOLS) of the header
MaxDim == IF img.NROWS >= img.NCOLS THEN img.NROWS ELSE img.NCOLS

\* C21: with d = max(NROWS, NCOLS), get_clevel returns 3 when d <= 2048, 5
\* when 2048 < d <= 8192, 6 when 8192 < d <= 65536 and 7 above that; it
\* never returns 4, and it does not decrease when d grows.
C21_Clevel ==
    slast.op = "get_clevel" =>
        /\ MaxDim <= 2048 => slast.out = 3
        /\ (2048 < MaxDim /\ MaxDim <= 8192) => slast.out = 5
        /\ (8192 < MaxDim /\ MaxDim <= 65536) => slast.out = 6
        /\ 65536 < MaxDim => slast.out = 7
        /\ slast.out # 4
        /\ \A r \in Dims, c \in Dims :
               (r <= MaxDim /\ c <= MaxDim) =>
                   get_clevel([img EXCEPT !.NROWS = r, !.NCOLS = c]) <= slast.out

\* get_clevel was called on a header of 2049 rows and 8192 columns: the
\* larger one lies between the first two thresholds
C21_Witness ==
    /\ slast.op = "get_clevel"
    /\ img.NROWS = 2049
    /\ img.NCOLS = 8192
    /\ slast.out = 5

\* C22: is_masked is true exactly when IC is one of NM, M1, M3, M4, M5, M6,
\* M7, M8, and for every code of the enumeration of the version that is
\* exactly when a MaskSubheader can be attached.
C22_IsMasked ==
    Built =>
        /\ is_masked(hdr) <=> Val(hdr.IC) \in MaskedCodes
        /\ (hlast.op = "mask_subheader" /\ ~IsNone(hlast.arg)
               /\ Val(hlast.arg).type = "MaskSubheader") =>
               (~hlast.raised <=> is_masked(hlast.prev))
        /\ \A c \in (IF hdr.version = "2.1" THEN IC_values ELSE IC_values0), m \in Masks :
               LET h == [hdr EXCEPT !.IC = Some(c)] IN
               is_masked(h) <=> mask_subheader_setter(h, Some(m)).ok

\* a subheader was attached to a header whose IC is NM, the one masked code
\* that is not compressed
C22_Witness ==
    /\ hlast.op = "mask_subheader"
    /\ ~hlast.raised
    /\ ~IsNone(hlast.arg)
    /\ hdr.mask_subheader = hlast.arg
    /\ hdr.IC = Some("NM")
    /\ is_masked(hdr)

\* the two bytes that a decode read as IC
DecodedIC ==
    LET at == hlast.start + hlast.used.ICORDS + hlast.used.IGEOLO IN
    Slice(hlast.arg, at, at + 2)

\* C23: is_compressed is true exactly when IC is neither NC nor NM, and for
\* every code of the enumeration of the version that is exactly when decode
\* consumes the four bytes of COMRAT after the two of IC.
C23_IsCompressed ==
    /\ Built => (is_compressed(hdr) <=> Val(hdr.IC) \notin {"NC", "NM"})
    /\ (hlast.op = "from_bytes" /\ ~hlast.raised) =>
           /\ is_compressed(hdr) <=> hlast.used.COMRAT = 4
           /\ ~is_compressed(hdr) <=> hlast.used.COMRAT = 0
           /\ hdr.IC = Some(DecodedIC)

\* a masked and compressed code was decoded and its COMRAT consumed
C23_Witness ==
    /\ hlast.op = "from_bytes"
    /\ ~hlast.raised
    /\ hdr.IC = Some("M8")
    /\ is_compressed(hdr)
    /\ hlast.used.COMRAT = 4
    /\ hdr.COMRAT = Some("0.75")

\* the byte that a decode read as ICORDS
DecodedICORDS == Slice(hlast.arg, hlast.start, hlast.start + 1)

\* C27: a decode of either version consumes exactly 2 bytes for IC and then
\* none for COMRAT, which decodes as None, when IC is NC or NM and exactly 4
\* for every other IC; it consumes exactly 1 byte for ICORDS and then none
\* or 60 for IGEOLO.
C27_DecodeWidths ==
    (hlast.op = "from_bytes" /\ ~hlast.raised) =>
        /\ hlast.used.IC = 2
        /\ DecodedIC \in {"NC", "NM"} =>
               (hlast.used.COMRAT = 0 /\ IsNone(hdr.COMRAT))
        /\ DecodedIC \notin {"NC", "NM"} => hlast.used.COMRAT = 4
        /\ hlast.used.ICORDS = 1
        /\ hlast.used.IGEOLO =
               (IF DecodedICORDS = (IF hdr.version = "2.1" THEN " " ELSE "N")
                THEN 0 ELSE 60)
        /\ hlast.loc - hlast.start = 3 + hlast.used.COMRAT + hlast.used.IGEOLO

\* the legacy header decoded 'N' and 'NM' at a non-zero offset: three bytes
\* in all, though four more followed
C27_Witness ==
    /\ hlast.op = "from_bytes"
    /\ ~hlast.raised
    /\ hdr.version = "2.0"
    /\ hlast.start = 1
    /\ DecodedICORDS = "N"
    /\ DecodedIC = "NM"
    /\ hlast.loc = 4
    /\ Len(hlast.arg) = 8
    /\ IsNone(hdr.COMRAT)

\* C24: after any sequence of LUTD assignments, refused ones included, NLUTS
\* is the number of rows of the LUTD that is held and NELUTS its number of
\* columns, both 0 when LUTD is None; NLUTS lies in 0..4 and NELUTS in
\* 0..65536.
C24_DerivedCounts ==
    /\ IsNone(band.LUTD) => (NLUTS(band) = 0 /\ NELUTS(band) = 0)
    /\ ~IsNone(band.LUTD) =>
           /\ NLUTS(band) = Len(Val(band.LUTD).data)
           /\ NLUTS(band) = Val(band.LUTD).shape[1]
           /\ NELUTS(band) = Val(band.LUTD).shape[2]
           /\ \A i \in 1..NLUTS(band) : Len(Val(band.LUTD).data[i]) = NELUTS(band)
    /\ NLUTS(band) \in 0..4
    /\ NELUTS(band) \in 0..65536
    /\ (blast.op = "LUTD" /\ blast.raised) =>
           (NLUTS(band) = NLUTS(blast.prev) /\ NELUTS(band) = NELUTS(blast.prev))
    /\ (blast.op = "LUTD" /\ ~blast.raised) => band.LUTD = blast.arg

\* a table of five rows was refused while one of four rows and two columns
\* was held
C24_Witness ==
    /\ blast.op = "LUTD"
    /\ blast.raised
    /\ ~IsNone(blast.arg)
    /\ Val(blast.arg).shape = <<5, 1>>
    /\ NLUTS(band) = 4
    /\ NELUTS(band) = 2

\* the five bytes after the first byte of a parsed count
NextFive == Slice(llast.value, llast.start + 1, llast.start + 6)

\* C25: a loop of no children encodes its count as the one byte '0'; a parse
\* of a count whose first byte is '0' reads the five bytes after it as the
\* count and advances by 6, so that the parse of the count of an empty loop
\* never advances by the 1 byte written, and returns what the five bytes
\* hold and not 0.
C25_ZeroCount ==
    /\ (llast.op = "_counts_bytes" /\ nvalues = 0) => llast.out = <<48>>
    /\ (llast.op = "_parse_count" /\ llast.value[llast.start + 1] = 48) =>
           /\ llast.raised <=> ~IsDigits(NextFive)
           /\ ~llast.raised =>
                  /\ llast.loc - llast.start = 6
                  /\ llast.count = int(NextFive)
    /\ (llast.op = "_parse_count" /\ nvalues = 0) =>
           /\ Len(llast.out) = 1
           /\ llast.value[llast.start + 1] = 48
           /\ ~llast.raised => llast.loc - llast.start = 6

\* the count of an empty loop, written as '0' before the bytes '00003', was
\* parsed as 3 over six bytes
C25_Witness ==
    /\ llast.op = "_parse_count"
    /\ nvalues = 0
    /\ llast.out = <<48>>
    /\ ~llast.raised
    /\ NextFive = <<48, 48, 48, 48, 51>>
    /\ llast.count = 3
    /\ llast.loc - llast.start = 6

\* C28: assigning IC a compressed code to a header whose COMRAT holds a
\* value leaves that value; only a COMRAT that is None is replaced, by four
\* spaces.
C28_ICKeepsCOMRAT ==
    (hlast.op = "IC" /\ ~hlast.raised /\ is_compressed(hdr)) =>
        /\ ~IsNone(hlast.prev.COMRAT) => hdr.COMRAT = hlast.prev.COMRAT
        /\ IsNone(hlast.prev.COMRAT) => hdr.COMRAT = Some(Blank(4))

\* C29: in every state reached by IC and mask_subheader assignments, a
\* header that holds a mask subheader has a masked IC.
C29_MaskImpliesMasked ==
    (Built /\ ~IsNone(hdr.mask_subheader)) => is_masked(hdr)

(***************************************************************************)
(* Claims about the fields of the mask subheader                           *)
(***************************************************************************)
\* C26: in every state reached by successful assignments to BMRLNTH,
\* TMRLNTH, BMR and TMR, BMR is None exactly when BMRLNTH is 0 and TMR is
\* None exactly when TMRLNTH is 0.
C26_TablesFollowLengths ==
    MaskBuilt =>
        /\ IsNone(mask.BMR) <=> mask.BMRLNTH = 0
        /\ IsNone(mask.TMR) <=> mask.TMRLNTH = 0

\* C30: in every state reached by successful field assignments, the length
\* that _get_attribute_length reports for each field is the number of bytes
\* that _get_attribute_bytes produces for it, and the reported length of
\* the subheader is the length of its encoding.
C30_LengthIsBytes ==
    MaskBuilt =>
        /\ \A i \in 1..Len(MaskSubheader_ordering) :
               MaskSubheader_get_attribute_length(mask, MaskSubheader_ordering[i])
                   = Len(MaskSubheader_get_attribute_bytes(mask, MaskSubheader_ordering[i]))
        /\ MaskSubheader_get_bytes_length(mask) = Len(MaskSubheader_to_bytes(mask))

====
